---- MODULE Spec2Model ----
(***************************************************************************)
(* The passive Modbus RTU decoder of seplos-bms-mqtt                       *)
(* (seplos/serial_snooper.py): the byte buffer self.data, the host loop    *)
(* that calls process_data with whatever read_raw returned, and the scan   *)
(* loop of _decode_modbus, one loop iteration per step.                    *)
(*                                                                         *)
(* Bytes are integers 0..255.  A Python sequence is a TLA+ sequence, so    *)
(* Python index i is TLA+ index i + 1.                                     *)
(***************************************************************************)
EXTENDS Integers, Sequences, FiniteSets, TLC

(***************************************************************************)
(* Bounds of the model.                                                    *)
(***************************************************************************)
\* longest stream made of noise bytes only
MaxNoise == 4
\* longest run of noise bytes in front of a frame
MaxPre == 2
\* the clock runs from 0 to MaxTime, and the health check is made MaxChecks
\* times; a battery is stale when its data is more than StaleTimeout old
MaxTime == 2
MaxChecks == 1
StaleTimeout == 1
\* publish_if_changed is called MaxCalls times
MaxCalls == 3

(***************************************************************************)
(* Program constants.                                                      *)
(***************************************************************************)
\* read_raw(n=256): the largest chunk one read returns
ReadSize == 256
\* "if len(self.data) > 2" and "len(modbusdata) > (frameStartIndex + 2)"
HeaderLen == 2
\* expectedLenght = 7: the shortest response the decoder looks at
MinFrameLen == 7
\* expectedLenght = (5 + readByteCount)
FrameOverhead == 5
\* functionCode == 1, functionCode == 4
FcCoils == 1
FcInput == 4
\* readByteCount == 18 / 52 / 36
AlarmLen == 18
CellLen == 52
MainLen == 36

(***************************************************************************)
(* calc_crc16(data, size) of seplos/utils.py: Modbus CRC-16, polynomial    *)
(* 0xA001, initial value 0xFFFF, one byte at a time, over data[0:size].    *)
(* The per-byte update is the eight shift/xor steps of the bitwise         *)
(* algorithm, tabulated once for the 256 values of the low byte.           *)
(***************************************************************************)
RECURSIVE BitXor(_, _)
BitXor(a, b) ==
    IF a = 0 THEN b
    ELSE IF b = 0 THEN a
    ELSE (((a % 2) + (b % 2)) % 2) + (2 * BitXor(a \div 2, b \div 2))

CrcPoly == 40961
CrcInit == 65535

RECURSIVE CrcShift(_, _)
CrcShift(c, n) ==
    IF n = 0 THEN c
    ELSE CrcShift(IF c % 2 = 1 THEN BitXor(c \div 2, CrcPoly) ELSE c \div 2, n - 1)

Xor8Tab == [a \in 0..255 |-> [b \in 0..255 |-> BitXor(a, b)]]

CrcTable == [i \in 0..255 |-> CrcShift(i, 8)]

\* crc ^= b, then eight shift steps: (crc >> 8) ^ CrcTable[(crc ^ b) & 0xFF]
CrcByte(crc, b) ==
    LET t == CrcTable[Xor8Tab[crc % 256][b]]
    IN  ((t \div 256) * 256) + Xor8Tab[crc \div 256][t % 256]

\* the bytes data[lo..hi] (TLA+ indices) folded into crc, left to right
RECURSIVE CrcRange(_, _, _, _)
CrcRange(data, lo, hi, crc) ==
    IF lo > hi THEN crc
    ELSE IF lo = hi THEN CrcByte(crc, data[lo])
    ELSE LET mid == (lo + hi) \div 2
             c == CrcRange(data, lo, mid, crc)
         IN  IF c < 0 THEN c ELSE CrcRange(data, mid + 1, hi, c)

calc_crc16(data, size) == CrcRange(data, 1, size, CrcInit)

(***************************************************************************)
(* The decoder.                                                            *)
(***************************************************************************)
VARIABLES
    stream,              \* the bytes the bus tap delivers, in order
    layout,              \* how the stream was put together: <<[tag, len], ...>>
    pos,                 \* how many bytes of stream read_raw has returned
    data,                \* self.data
    modbusdata,          \* the local modbusdata of a running _decode_modbus
    pc,                  \* "host": in the main loop; "scan": in the while loop
    trashdata,           \* self.trashdata
    trashdataf,          \* self.trashdataf
    batts_declared_set,  \* self.batts_declared_set
    records,             \* the _process_* calls made so far, in order
    validated,           \* the frames whose CRC matched: <<[start, len, ...]>>
    trashed,             \* stream offsets of the bytes dropped on a desync
    trashruns,           \* how many times a new "Ignoring data: [" was begun
    consumed,            \* how many bytes have left the head of the buffer
    raised,              \* an IndexError or TypeError was raised
    lastCall,            \* the last process_data call: "none", "feed", "idle"
    split                \* a pass has returned with bytes left and more to come

\* what the decoder's handlers reach: the broker and the aggregator
VARIABLES
    mqttlog,             \* what the handlers and the health check sent, in order
    batteries            \* PackAggregator.batteries, in insertion order

\* the HealthMonitor thread and the clock it reads
VARIABLES
    now,                     \* time.time()
    hpc,                     \* "wait", "iterate", or "dead" after an exception
    hiter,                   \* the locals of a running _check_stale_batteries
    health_checks_performed  \* self.health_checks_performed

\* the MQTTManager
VARIABLES
    publish_mode,        \* self.publish_mode
    connected,           \* self.connected
    last_values,         \* self.last_values
    messages_published,  \* self.messages_published
    messages_skipped,    \* self.messages_skipped
    calls,               \* the publish_if_changed calls made, in order
    handed               \* the calls of them that went on to publish

\* the PackAggregator's own fields
VARIABLES
    pack_declared,       \* self.pack_declared
    last_publish_time,   \* self.last_publish_time
    pack_calls           \* how many calculate_and_publish calls were made

decoderVars == <<stream, layout, pos, data, modbusdata, pc, trashdata, trashdataf,
                 batts_declared_set, records, validated, trashed, trashruns, consumed,
                 raised, lastCall, split>>

healthVars == <<now, hpc, hiter, health_checks_performed>>

mqttVars == <<publish_mode, connected, last_values, messages_published,
              messages_skipped, calls, handed>>

packVars == <<pack_declared, last_publish_time, pack_calls>>

\* the InfluxDBManager of the same program (seplos/influxdb_manager.py)
VARIABLES
    influx_connected,        \* self.connected
    reconnect_attempts,      \* self.reconnect_attempts
    reconnect_delay,         \* self.reconnect_delay
    last_reconnect_attempt,  \* self.last_reconnect_attempt
    reconnect_count,         \* self.reconnect_count
    last_try                 \* the last _try_reconnect call: what it met and did

influxVars == <<influx_connected, reconnect_attempts, reconnect_delay,
                last_reconnect_attempt, reconnect_count, last_try>>

\* the ModbusConnection of fronius-modbus-mqtt (fronius/modbus_client.py)
VARIABLES
    mb_client,           \* self.client is not None
    mb_connected,        \* self.connected
    successful_reads,    \* self.successful_reads
    failed_reads,        \* self.failed_reads
    last_unit_id,        \* self.last_unit_id, 0 for None
    mb_call              \* the last read_registers call: what it met and did

modbusVars == <<mb_client, mb_connected, successful_reads, failed_reads,
                last_unit_id, mb_call>>

\* the MQTTClient of fronius-solar-api-mqtt (fronius_collector/mqtt_client.py)
\* and the tasks of the event loop it runs in
VARIABLES
    running,             \* self._running
    client_connected,    \* self._connected
    client_open,         \* self._client is not None
    reconnect_task,      \* self._reconnect_task: an index into tasks, 0 for None
    tasks,               \* every task made of _reconnect_loop(), in order
    lifecycle,           \* where start() and stop() are
    publishing           \* how many publish() calls are in self._client.publish

reconnVars == <<running, client_connected, client_open, reconnect_task, tasks,
                lifecycle, publishing>>

\* the InfluxClient of fronius-solar-api-mqtt (fronius_collector/
\* influxdb_client.py); a point is the number of the write that made it
VARIABLES
    point_buffer,        \* self._buffer
    influx_up,           \* self._connected
    flushing,            \* points_to_write of every _flush_buffer at its await
    written,             \* the points the write API took and returned for
    appended,            \* how many points were appended to the buffer
    resolved             \* the last _flush_buffer that came back from its await

bufferVars == <<point_buffer, influx_up, flushing, written, appended, resolved>>

\* what the decoder, the health monitor, the MQTT manager and the aggregator
\* do not touch
farVars == <<influxVars, modbusVars, reconnVars, bufferVars>>

\* what the decoder, the health monitor, the MQTT manager and the aggregator
\* work on
nearVars == <<decoderVars, mqttlog, batteries, healthVars, mqttVars, packVars>>

vars == <<stream, layout, pos, data, modbusdata, pc, trashdata, trashdataf,
          batts_declared_set, records, validated, trashed, trashruns, consumed,
          raised, lastCall, split, mqttlog, batteries, now, hpc, hiter,
          health_checks_performed, publish_mode, connected, last_values,
          messages_published, messages_skipped, calls, handed,
          pack_declared, last_publish_time, pack_calls, farVars>>

\* modbusdata[i] of Python: the byte, or -1 where Python raises IndexError
Rd(md, i) == IF i >= 0 /\ i < Len(md) THEN md[i + 1] ELSE -1

\* modbusdata[n:]
DropHead(md, n) == IF n >= Len(md) THEN <<>> ELSE SubSeq(md, n + 1, Len(md))

\* a change: two bytes, the header without the count, are enough
HeaderAvailableEarly(md, frameStartIndex) == Len(md) > frameStartIndex + HeaderLen - 1

\* a bug: one byte more than the header and the count is waited for
HeaderAvailableLate(md, frameStartIndex) == Len(md) > frameStartIndex + HeaderLen + 1

\* lines 215, 93: a header can be read at frameStartIndex
HeaderAvailable(md, frameStartIndex) == Len(md) > frameStartIndex + HeaderLen

\* lines 223, 257: the function codes with a branch of their own
Recognized(functionCode) == functionCode \in {FcCoils, FcInput}

\* a change: only the header and the count are waited for
MinFrameAvailableCount(md, frameStartIndex) == Len(md) >= frameStartIndex + HeaderLen + 1

\* lines 226, 260: expectedLenght = 7
MinFrameAvailable(md, frameStartIndex) == Len(md) >= frameStartIndex + MinFrameLen

\* a bug: one byte of the frame is not counted
ExpectedLengthShort(readByteCount) == FrameOverhead - 1 + readByteCount

\* lines 230, 264: expectedLenght = 5 + readByteCount
ExpectedLength(readByteCount) == FrameOverhead + readByteCount

\* lines 231, 265
\* a bug: the byte behind the frame is waited for
FrameAvailableBeyond(md, frameStartIndex, readByteCount) ==
    Len(md) > frameStartIndex + ExpectedLength(readByteCount)

FrameAvailable(md, frameStartIndex, readByteCount) ==
    Len(md) >= frameStartIndex + ExpectedLength(readByteCount)

\* lines 232-236, 266-270: readData, the readByteCount bytes after the count
ReadData(md, frameStartIndex, readByteCount) ==
    [i \in 1..readByteCount |-> Rd(md, frameStartIndex + 2 + i)]

\* a bug: the CRC is read in the order of the Modbus RTU wire, low byte first
ReceivedCrcLowFirst(md, bufferIndex) == Rd(md, bufferIndex) + (Rd(md, bufferIndex + 1) * 256)

\* lines 237, 271: crc16 = modbusdata[bufferIndex] * 0x0100 + modbusdata[bufferIndex + 1]
ReceivedCrc(md, bufferIndex) == (Rd(md, bufferIndex) * 256) + Rd(md, bufferIndex + 1)

\* a bug: only the byte that counts 0x0100 is compared
CrcMatchesHighByte(md, bufferIndex) ==
    Rd(md, bufferIndex) = calc_crc16(md, bufferIndex) \div 256

\* lines 238-240, 272-274: crc16 == metCRC16, metCRC16 over modbusdata[0:bufferIndex]
CrcMatches(md, bufferIndex) ==
    ReceivedCrc(md, bufferIndex) = calc_crc16(md, bufferIndex)

\* a bug: only one of the two CRC bytes is passed
AfterCrcOne(crcIndex) == crcIndex + 1

\* a bug: bufferIndex is left on the first CRC byte
AfterCrcMissing(crcIndex) == crcIndex

\* lines 239, 273: bufferIndex += 2, past the two CRC bytes
AfterCrc(crcIndex) == crcIndex + 2

\* a bug: a failed attempt steps over two bytes
DesyncAdvanceTwo(frameStartIndex, bufferIndex) == frameStartIndex + 2

\* a bug: the buffer is cut at bufferIndex as the header reads left it
DesyncAdvanceStale(frameStartIndex, bufferIndex) == bufferIndex

\* line 305: bufferIndex = frameStartIndex + 1, whatever bufferIndex had got to
DesyncAdvance(frameStartIndex, bufferIndex) == frameStartIndex + 1

\* a bug: the byte count alone decides, whatever the function code
DispatchByLength(functionCode, readByteCount) ==
    IF readByteCount = AlarmLen THEN "AlarmStatus"
    ELSE IF readByteCount = CellLen THEN "CellInfo"
    ELSE IF readByteCount = MainLen THEN "MainInfo"
    ELSE "none"

\* a bug: the two input-register lengths are taken for each other
DispatchSwapped(functionCode, readByteCount) ==
    IF functionCode = FcCoils /\ readByteCount = AlarmLen THEN "AlarmStatus"
    ELSE IF functionCode = FcInput /\ readByteCount = MainLen THEN "CellInfo"
    ELSE IF functionCode = FcInput /\ readByteCount = CellLen THEN "MainInfo"
    ELSE "none"

\* lines 247, 281, 285: which _process_* call a validated frame leads to
Dispatch(functionCode, readByteCount) ==
    IF functionCode = FcCoils /\ readByteCount = AlarmLen THEN "AlarmStatus"
    ELSE IF functionCode = FcInput /\ readByteCount = CellLen THEN "CellInfo"
    ELSE IF functionCode = FcInput /\ readByteCount = MainLen THEN "MainInfo"
    ELSE "none"

(***************************************************************************)
(* One iteration of the while loop of _decode_modbus (lines 205-307) on    *)
(* modbusdata = md with bufferIndex = frameStartIndex: what it read and    *)
(* how it ended.  indexError: some index it read lies outside md.          *)
(***************************************************************************)
Attempt(md, frameStartIndex) ==
    LET unitIdentifier == Rd(md, frameStartIndex)
        functionCode == Rd(md, frameStartIndex + 1)
        readByteCount == Rd(md, frameStartIndex + 2)
        crcIndex == frameStartIndex + 3 + readByteCount
        none == [needMoreData |-> FALSE, responce |-> FALSE, indexError |-> FALSE,
                 unitIdentifier |-> 0, functionCode |-> 0, readByteCount |-> 0,
                 readData |-> <<>>, bufferIndex |-> frameStartIndex]
    IN  IF ~HeaderAvailable(md, frameStartIndex)
        THEN [none EXCEPT !.needMoreData = TRUE]
        ELSE IF unitIdentifier < 0 \/ functionCode < 0
        THEN [none EXCEPT !.indexError = TRUE]
        ELSE IF ~Recognized(functionCode)
        THEN [none EXCEPT !.unitIdentifier = unitIdentifier,
                          !.functionCode = functionCode,
                          !.bufferIndex = frameStartIndex + 2]
        ELSE IF ~MinFrameAvailable(md, frameStartIndex)
        THEN [none EXCEPT !.needMoreData = TRUE,
                          !.unitIdentifier = unitIdentifier,
                          !.functionCode = functionCode,
                          !.bufferIndex = frameStartIndex + 2]
        ELSE IF readByteCount < 0
        THEN [none EXCEPT !.indexError = TRUE]
        ELSE IF ~FrameAvailable(md, frameStartIndex, readByteCount)
        THEN [none EXCEPT !.needMoreData = TRUE,
                          !.unitIdentifier = unitIdentifier,
                          !.functionCode = functionCode,
                          !.readByteCount = readByteCount,
                          !.bufferIndex = frameStartIndex + 3]
        ELSE IF crcIndex + 1 >= Len(md)
        THEN [none EXCEPT !.indexError = TRUE]
        ELSE [none EXCEPT !.responce = CrcMatches(md, crcIndex),
                          !.unitIdentifier = unitIdentifier,
                          !.functionCode = functionCode,
                          !.readByteCount = readByteCount,
                          !.readData = ReadData(md, frameStartIndex, readByteCount),
                          !.bufferIndex = AfterCrc(crcIndex)]

(***************************************************************************)
(* _process_main_info (lines 484-557): the values it publishes.  A value   *)
(* the code divides by 100, 10 or 1000 is kept as the integer number of    *)
(* hundredths, tenths or thousandths; a temperature is kept as the word    *)
(* itself, in tenths of a kelvin.                                          *)
(***************************************************************************)
\* (readData[i] << 8) | readData[i + 1], i = 2 * w
Word(readData, w) == (readData[(2 * w) + 1] * 256) + readData[(2 * w) + 2]

\* a bug: the largest positive word is taken for a negative one
Signed16Exclusive(word) == IF word < 32767 THEN word ELSE word - 65536

\* readDataNumber[1] if readDataNumber[1] <= 32767 else readDataNumber[1] - 65536
Signed16(word) == IF word <= 32767 THEN word ELSE word - 65536

\* round(x) of Python for x = n / d, d > 0: the nearest integer, an exact
\* half going to the even neighbour
RoundHalfEven(n, d) ==
    LET q == n \div d
        r == n % d
    IN  IF 2 * r < d THEN q
        ELSE IF 2 * r > d THEN q + 1
        ELSE IF q % 2 = 0 THEN q ELSE q + 1

\* a bug: the product is rounded without the change of sign
PowerUnflipped(readData) ==
    RoundHalfEven(Signed16(Word(readData, 1)) * Word(readData, 0), 10000)

\* line 512: int(round(-current * pack_voltage)), current and pack_voltage
\* being hundredths
PowerOf(readData) ==
    RoundHalfEven(-(Signed16(Word(readData, 1)) * Word(readData, 0)), 10000)

\* the product of line 512 lies exactly between two integers
PowerTie(readData) ==
    (Signed16(Word(readData, 1)) * Word(readData, 0)) % 10000 = 5000

MainFields(readData) ==
    [pack_voltage |-> Word(readData, 0),
     current |-> Signed16(Word(readData, 1)),
     remaining_capacity |-> Word(readData, 2),
     total_capacity |-> Word(readData, 3),
     total_discharge_capacity |-> Word(readData, 4) * 10,
     soc |-> Word(readData, 5),
     soh |-> Word(readData, 6),
     cycles |-> Word(readData, 7),
     average_cell_voltage |-> Word(readData, 8),
     average_cell_temp |-> Word(readData, 9),
     max_cell_voltage |-> Word(readData, 10),
     min_cell_voltage |-> Word(readData, 11),
     max_cell_temp |-> Word(readData, 12),
     min_cell_temp |-> Word(readData, 13),
     maxdiscurt |-> Word(readData, 15),
     maxchgcurt |-> Word(readData, 16),
     power |-> PowerOf(readData),
     cell_delta |-> Word(readData, 10) - Word(readData, 11)]

(***************************************************************************)
(* _process_alarm_status (lines 309-445): the operating status and the     *)
(* three summaries it publishes.  A flag is named by the byte of readData  *)
(* and the bit in it: (readData[byte] >> bit) & 1.                         *)
(***************************************************************************)
Flag(readData, byte, bit) == (readData[byte + 1] \div (2 ^ bit)) % 2

\* a bug: every test is an if of its own, the last set bit wins
strStatusLastWins(readData) ==
    IF Flag(readData, 8, 5) = 1 THEN "Off"
    ELSE IF Flag(readData, 8, 4) = 1 THEN "Standby"
    ELSE IF Flag(readData, 8, 3) = 1 THEN "Full charge"
    ELSE IF Flag(readData, 8, 2) = 1 THEN "Floating charge"
    ELSE IF Flag(readData, 8, 1) = 1 THEN "Charge"
    ELSE IF Flag(readData, 8, 0) = 1 THEN "Discharge"
    ELSE "Unknown"

\* lines 336-343: the if / elif chain on byte 8
strStatus(readData) ==
    IF Flag(readData, 8, 0) = 1 THEN "Discharge"
    ELSE IF Flag(readData, 8, 1) = 1 THEN "Charge"
    ELSE IF Flag(readData, 8, 2) = 1 THEN "Floating charge"
    ELSE IF Flag(readData, 8, 3) = 1 THEN "Full charge"
    ELSE IF Flag(readData, 8, 4) = 1 THEN "Standby"
    ELSE IF Flag(readData, 8, 5) = 1 THEN "Off"
    ELSE "Unknown"

\* lines 406-414: the flags summed into alarm_count, in the order of the list
alarm_count_flags ==
    <<<<9, 0>>, <<9, 1>>, <<9, 2>>, <<9, 3>>,
      <<9, 4>>, <<9, 5>>, <<9, 6>>, <<9, 7>>,
      <<10, 0>>, <<10, 1>>, <<10, 2>>, <<10, 3>>,
      <<10, 4>>, <<10, 5>>, <<10, 6>>, <<10, 7>>,
      <<11, 0>>, <<11, 1>>, <<11, 4>>, <<11, 5>>,
      <<12, 0>>, <<12, 1>>, <<12, 3>>, <<12, 4>>,
      <<12, 6>>, <<14, 2>>, <<14, 4>>>>

\* lines 418-427: the flags summed into protection_count
protection_count_flags ==
    <<<<9, 1>>, <<9, 3>>,
      <<9, 5>>, <<9, 7>>,
      <<10, 1>>, <<10, 3>>,
      <<10, 5>>, <<10, 7>>,
      <<11, 1>>, <<11, 5>>,
      <<12, 1>>, <<12, 2>>,
      <<12, 4>>, <<12, 5>>,
      <<12, 6>>, <<14, 3>>>>

\* line 431: the flags summed into failure_count
failure_count_flags == <<<<17, 0>>, <<17, 1>>, <<17, 2>>, <<17, 3>>, <<17, 4>>>>

\* sum([...]) over the flags named
RECURSIVE SumFlags(_, _)
SumFlags(readData, flags) ==
    IF flags = <<>> THEN 0
    ELSE Flag(readData, Head(flags)[1], Head(flags)[2]) + SumFlags(readData, Tail(flags))

\* a bug: the two bytes of the bitmap are taken high byte first
balancing_bits_high_first(readData) == (readData[6 + 1] * 256) + readData[7 + 1]

\* line 328: (readData[7] << 8) | readData[6]
balancing_bits(readData) == (readData[7 + 1] * 256) + readData[6 + 1]

\* line 330: bin(balancing_bits).count('1')
RECURSIVE CountOnes(_)
CountOnes(bits) == IF bits = 0 THEN 0 ELSE (bits % 2) + CountOnes(bits \div 2)

\* line 332: [i+1 for i in range(16) if (balancing_bits >> i) & 1]
balancing_cells(bits) ==
    LET keep(n) == (bits \div (2 ^ (n - 1))) % 2 = 1
    IN  SelectSeq([n \in 1..16 |-> n], keep)

\* lines 333-334: the list as it is published, "none" for an empty one
CellsText(cells) == IF cells = <<>> THEN "none" ELSE cells

AlarmFields(readData) ==
    [balancing_bits |-> balancing_bits(readData),
     balancing_count |-> CountOnes(balancing_bits(readData)),
     balancing_cells |-> balancing_cells(balancing_bits(readData)),
     balancing_cells_text |-> CellsText(balancing_cells(balancing_bits(readData))),
     status |-> strStatus(readData),
     alarm_count |-> SumFlags(readData, alarm_count_flags),
     protection_count |-> SumFlags(readData, protection_count_flags),
     failure_count |-> SumFlags(readData, failure_count_flags)]

(***************************************************************************)
(* _process_cell_info (lines 447-482): the values it publishes.  A cell    *)
(* voltage is kept as the word, in millivolts; a temperature, which the    *)
(* code computes as word / 10.0 - 273.15 and rounds to one decimal, is     *)
(* kept as the exact value before the rounding, in hundredths of a degree. *)
(***************************************************************************)
AmbientByte == 48
MosfetByte == 50

\* (readData[i] << 8) | readData[i + 1]
Raw16(readData, i) == (Rd(readData, i) * 256) + Rd(readData, i + 1)

\* raw / 10.0 - 273.15, in hundredths
Celsius100(raw) == (10 * raw) - 27315

\* a bug: the ambient temperature is read right behind the cell temperatures
CellFieldsAmbientNext(readData) ==
    [cell_voltages |-> [n \in 1..16 |-> Raw16(readData, 2 * (n - 1))],
     cell_temps |-> [n \in 1..4 |-> Celsius100(Raw16(readData, 32 + (2 * (n - 1))))],
     ambient_temp |-> Celsius100(Raw16(readData, 40)),
     mosfet_temp |-> Celsius100(Raw16(readData, MosfetByte))]

\* lines 454-478
CellFields(readData) ==
    [cell_voltages |-> [n \in 1..16 |-> Raw16(readData, 2 * (n - 1))],
     cell_temps |-> [n \in 1..4 |-> Celsius100(Raw16(readData, 32 + (2 * (n - 1))))],
     ambient_temp |-> Celsius100(Raw16(readData, AmbientByte)),
     mosfet_temp |-> Celsius100(Raw16(readData, MosfetByte))]

\* what one _process_* call is given and publishes
Record(kind, unitIdentifier, readData, start) ==
    [kind |-> kind, unit |-> unitIdentifier, readData |-> readData, start |-> start,
     fields |-> IF kind = "MainInfo" THEN MainFields(readData)
                ELSE IF kind = "AlarmStatus" THEN AlarmFields(readData)
                ELSE IF kind = "CellInfo" THEN CellFields(readData)
                ELSE <<>>]

\* a change: a frame the table does not have is handed on as a record too
EmitUnrecognized(recs, a, start) ==
    Append(recs, [kind |-> IF Dispatch(a.functionCode, a.readByteCount) = "none"
                           THEN "Unrecognized"
                           ELSE Dispatch(a.functionCode, a.readByteCount),
                  unit |-> a.unitIdentifier, readData |-> a.readData, start |-> start,
                  fields |-> <<>>])

\* a bug: the newest record is put in front of the older ones
EmitFront(recs, a, start) ==
    IF Dispatch(a.functionCode, a.readByteCount) = "none" THEN recs
    ELSE <<Record(Dispatch(a.functionCode, a.readByteCount),
                  a.unitIdentifier, a.readData, start)>> \o recs

\* lines 248, 282, 286: the records after the dispatch of a validated frame
Emit(recs, a, start) ==
    IF Dispatch(a.functionCode, a.readByteCount) = "none" THEN recs
    ELSE Append(recs, Record(Dispatch(a.functionCode, a.readByteCount),
                             a.unitIdentifier, a.readData, start))

\* line 512 multiplies two binary floating-point numbers, neither of them
\* the exact hundredths it stands for, so a product that should be an exact
\* half comes out an ulp above or below it as often as on it, and round()
\* then returns either neighbour: both are outcomes of the emitted record
FloatOutcomes(emitted) ==
    IF /\ emitted # <<>>
       /\ emitted[Len(emitted)].kind = "MainInfo"
       /\ PowerTie(emitted[Len(emitted)].readData)
    THEN LET last == emitted[Len(emitted)]
             below == (-(Signed16(Word(last.readData, 1)) * Word(last.readData, 0))) \div 10000
         IN  {[emitted EXCEPT ![Len(emitted)].fields.power = p] : p \in {below, below + 1}}
    ELSE {emitted}

\* MQTTManager.publish (lines 167-181): nothing is sent while disconnected
Publish(log, event) == IF connected THEN Append(log, event) ELSE log

\* the handler of a validated frame, as the broker sees it: a unit that is
\* not in batts_declared_set is announced by autodiscovery_battery, whose
\* last act is to publish state "online" (lines 164-165), and then the
\* telemetry of the frame is published
Announce(log, declared, a, start) ==
    IF Dispatch(a.functionCode, a.readByteCount) = "none" THEN log
    ELSE LET u == a.unitIdentifier
             announced ==
                 IF u \notin declared
                 THEN Publish(Append(log, [op |-> "autodiscovery", unit |-> u, arg |-> start]),
                              [op |-> "state", unit |-> u, arg |-> "online"])
                 ELSE log
         IN  Append(announced, [op |-> "telemetry", unit |-> u, arg |-> start])

\* PackAggregator.update_battery_data (lines 31-36): a new batt_id is
\* inserted, and last_update is set
StoreBattery(table, batt_id, t) ==
    IF \E i \in 1..Len(table) : table[i].batt_id = batt_id
    THEN [i \in 1..Len(table) |->
             IF table[i].batt_id = batt_id
             THEN [table[i] EXCEPT !.last_update = t] ELSE table[i]]
    ELSE Append(table, [batt_id |-> batt_id, last_update |-> t])

\* the update_battery_data call that every handler makes
update_battery_data(table, a, t) ==
    IF Dispatch(a.functionCode, a.readByteCount) = "none" THEN table
    ELSE StoreBattery(table, a.unitIdentifier, t)

(***************************************************************************)
(* PackAggregator.calculate_and_publish (pack_aggregator.py, lines         *)
(* 143-325), which _process_main_info calls last (serial_snooper.py, line  *)
(* 557).  The aggregator is built without an InfluxDBManager, the default  *)
(* of its constructor (line 21), so the writes of lines 289-325 are not    *)
(* made.  The clock of the model counts from the start of the program, at  *)
(* which time.time() reads ClockStart seconds, so the 0 that __init__      *)
(* gives last_publish_time (line 27) is -ClockStart on the model's clock.  *)
(***************************************************************************)
PublishInterval == 2
OnlineTimeout == 60

\* get_online_batteries (lines 46-50)
get_online_batteries(table, t) ==
    {i \in 1..Len(table) : t - table[i].last_update < OnlineTimeout}

\* a bug: the rate limit is not looked at
PackPublishesUnlimited(lpt, table, t) == get_online_batteries(table, t) # {}

\* lines 146-151: neither of the two early returns is taken
PackPublishes(lpt, table, t) ==
    /\ ~(t - lpt < PublishInterval)
    /\ get_online_batteries(table, t) # {}

\* autodiscovery_pack (lines 58-108): nothing when the pack is declared
autodiscovery_pack(log, declared, t) ==
    IF declared THEN log
    ELSE Append(log, [op |-> "pack_autodiscovery", unit |-> 0, arg |-> t])

\* one call of calculate_and_publish at time t, the handlers before it having
\* left the log as log and the table as table
CalculateAndPublish(log, table, t) ==
    /\ pack_calls' = pack_calls + 1
    /\ IF PackPublishes(last_publish_time, table, t)
       THEN /\ mqttlog' = Append(autodiscovery_pack(log, pack_declared, t),
                                 [op |-> "pack",
                                  unit |-> Cardinality(get_online_batteries(table, t)),
                                  arg |-> t])
            /\ pack_declared' = TRUE
            /\ last_publish_time' = t
       ELSE /\ mqttlog' = log
            /\ UNCHANGED <<pack_declared, last_publish_time>>

\* a bug: the set is begun anew with the unit of the frame
DeclareLatest(declared, a) ==
    IF Dispatch(a.functionCode, a.readByteCount) = "none" THEN declared
    ELSE {a.unitIdentifier}

\* lines 311-313, 449-451, 490-492: batts_declared_set after the dispatch
Declare(declared, a) ==
    IF Dispatch(a.functionCode, a.readByteCount) = "none" THEN declared
    ELSE declared \cup {a.unitIdentifier}

(***************************************************************************)
(* self.trashdataf: bytearray(0) at first (line 33), later the string      *)
(* "Ignoring data: [aa bb" with or without its closing "]".                *)
(***************************************************************************)
TrashInit == [isStr |-> FALSE, bytes |-> <<>>, closed |-> FALSE]

\* lines 241-243, 275-277
TrashClose(flag, f) == IF flag THEN [f EXCEPT !.closed = TRUE] ELSE f

\* a bug: the flag is not looked at, the byte joins whatever string there is
TrashAddFlagless(flag, f, byte) ==
    [isStr |-> TRUE, bytes |-> Append(f.bytes, byte), closed |-> f.closed]

\* a bug: every discarded byte begins the string anew
TrashAddRestart(flag, f, byte) == [isStr |-> TRUE, bytes |-> <<byte>>, closed |-> FALSE]

\* lines 300-304
TrashAdd(flag, f, byte) ==
    IF flag THEN [f EXCEPT !.bytes = Append(@, byte)]
    ELSE [isStr |-> TRUE, bytes |-> <<byte>>, closed |-> FALSE]

\* str += str on a bytearray raises TypeError
TrashTypeError(flag, f) == flag /\ ~f.isStr

(***************************************************************************)
(* process_data (lines 90-97) and the loop of _decode_modbus.              *)
(***************************************************************************)
\* a bug: the chunk is put in front of the bytes already buffered
FeedFront(k) ==
    /\ pc = "host"
    /\ k >= 1 /\ k <= ReadSize /\ pos + k <= Len(stream)
    /\ data' = SubSeq(stream, pos + 1, pos + k) \o data
    /\ pos' = pos + k
    /\ lastCall' = "feed"
    /\ UNCHANGED <<stream, layout, modbusdata, pc, trashdata, trashdataf,
                   batts_declared_set, records, validated, trashed, trashruns,
                   consumed, raised, split>>
    /\ UNCHANGED <<mqttlog, batteries, healthVars, mqttVars, packVars, farVars>>

\* process_data(data) with len(data) = k > 0: lines 96-97
Feed(k) ==
    /\ pc = "host"
    /\ k >= 1 /\ k <= ReadSize /\ pos + k <= Len(stream)
    /\ data' = data \o SubSeq(stream, pos + 1, pos + k)
    /\ pos' = pos + k
    /\ lastCall' = "feed"
    /\ UNCHANGED <<stream, layout, modbusdata, pc, trashdata, trashdataf,
                   batts_declared_set, records, validated, trashed, trashruns,
                   consumed, raised, split>>
    /\ UNCHANGED <<mqttlog, batteries, healthVars, mqttVars, packVars, farVars>>

\* process_data(b"") with len(self.data) <= 2: lines 92-95, nothing to decode
IdleSkip ==
    /\ pc = "host"
    /\ ~(Len(data) > HeaderLen)
    /\ lastCall' = "idle"
    /\ UNCHANGED <<stream, layout, pos, data, modbusdata, pc, trashdata,
                   trashdataf, batts_declared_set, records, validated, trashed,
                   trashruns, consumed, raised, split>>
    /\ UNCHANGED <<mqttlog, batteries, healthVars, mqttVars, packVars, farVars>>

\* process_data(b"") with len(self.data) > 2: line 94 enters _decode_modbus
IdleStart ==
    /\ pc = "host"
    /\ Len(data) > HeaderLen
    /\ pc' = "scan"
    /\ modbusdata' = data
    /\ lastCall' = "idle"
    /\ UNCHANGED <<stream, layout, pos, data, trashdata, trashdataf,
                   batts_declared_set, records, validated, trashed, trashruns,
                   consumed, raised, split>>
    /\ UNCHANGED <<mqttlog, batteries, healthVars, mqttVars, packVars, farVars>>

\* a bug: the buffer is returned from bufferIndex on, dropping the header read
ReturnedBufferFromIndex(md, bufferIndex) == DropHead(md, bufferIndex)

\* line 298: return modbusdata, whatever bufferIndex has got to
ReturnedBuffer(md, bufferIndex) == md

\* the loop is left: lines 297-298 and 94 (return modbusdata, self.data = the
\* returned buffer), or an IndexError that leaves process_data
ScanNeedMoreData ==
    /\ pc = "scan"
    /\ LET a == Attempt(modbusdata, 0)
       IN  /\ a.indexError \/ a.needMoreData
           /\ raised' = (raised \/ a.indexError)
           /\ pc' = IF a.indexError THEN "crashed" ELSE "host"
           /\ data' = IF a.indexError THEN data
                      ELSE ReturnedBuffer(modbusdata, a.bufferIndex)
           /\ split' = (split \/ (Len(data') > 0 /\ pos < Len(stream)))
    /\ modbusdata' = <<>>
    /\ UNCHANGED <<stream, layout, pos, trashdata, trashdataf,
                   batts_declared_set, records, validated, trashed, trashruns,
                   consumed, lastCall>>
    /\ UNCHANGED <<mqttlog, batteries, healthVars, mqttVars, packVars, farVars>>

\* lines 240-251, 274-289: the CRC matched
ScanFrameValid ==
    /\ pc = "scan"
    /\ LET a == Attempt(modbusdata, 0)
       IN  /\ ~a.indexError /\ ~a.needMoreData /\ a.responce
           /\ raised' = (raised \/ TrashTypeError(trashdata, trashdataf))
           /\ pc' = IF TrashTypeError(trashdata, trashdataf) THEN "crashed" ELSE "scan"
           /\ trashdataf' = TrashClose(trashdata, trashdataf)
           /\ trashdata' = FALSE
           /\ records' \in (IF Dispatch(a.functionCode, a.readByteCount) = "none"
                            THEN {Emit(records, a, consumed)}
                            ELSE FloatOutcomes(Emit(records, a, consumed)))
           /\ batts_declared_set' = Declare(batts_declared_set, a)
           /\ batteries' = update_battery_data(batteries, a, now)
           /\ IF Dispatch(a.functionCode, a.readByteCount) = "MainInfo"
              THEN CalculateAndPublish(Announce(mqttlog, batts_declared_set, a, consumed),
                                       update_battery_data(batteries, a, now), now)
              ELSE /\ mqttlog' = Announce(mqttlog, batts_declared_set, a, consumed)
                   /\ UNCHANGED packVars
           /\ validated' = Append(validated,
                  [start |-> consumed, len |-> a.bufferIndex,
                   unit |-> a.unitIdentifier, functionCode |-> a.functionCode,
                   readByteCount |-> a.readByteCount])
           /\ modbusdata' = DropHead(modbusdata, a.bufferIndex)
           /\ consumed' = consumed + (Len(modbusdata) - Len(modbusdata'))
    /\ UNCHANGED <<stream, layout, pos, data, trashed, trashruns, lastCall, split>>
    /\ UNCHANGED <<healthVars, mqttVars, farVars>>

\* lines 299-307: neither needMoreData nor responce
ScanDesync ==
    /\ pc = "scan"
    /\ LET a == Attempt(modbusdata, 0)
       IN  /\ ~a.indexError /\ ~a.needMoreData /\ ~a.responce
           /\ raised' = (raised \/ TrashTypeError(trashdata, trashdataf))
           /\ pc' = IF TrashTypeError(trashdata, trashdataf) THEN "crashed" ELSE "scan"
           /\ trashdataf' = TrashAdd(trashdata, trashdataf, Rd(modbusdata, 0))
           /\ trashdata' = TRUE
           /\ trashruns' = IF trashdata THEN trashruns ELSE trashruns + 1
           /\ trashed' = Append(trashed, consumed)
           /\ modbusdata' = DropHead(modbusdata, DesyncAdvance(0, a.bufferIndex))
           /\ consumed' = consumed + (Len(modbusdata) - Len(modbusdata'))
    /\ UNCHANGED <<stream, layout, pos, data, batts_declared_set, records,
                   validated, lastCall, split>>
    /\ UNCHANGED <<mqttlog, batteries, healthVars, mqttVars, packVars, farVars>>

(***************************************************************************)
(* The traffic on the bus.  A frame is laid out as lines 217-237 read it:  *)
(* unit, function code, byte count, payload, and the CRC with the byte     *)
(* that line 237 multiplies by 0x0100 first.                               *)
(***************************************************************************)
Frame(unit, functionCode, payload) ==
    LET body == <<unit, functionCode, Len(payload)>> \o payload
        c == calc_crc16(body, Len(body))
    IN  body \o <<c \div 256, c % 256>>

\* bit 0..7 flipped in the last byte of the frame, bit 8..15 in the one before
FlipCrcBit(frame, bit) ==
    LET n == Len(frame)
        Pow2 == <<1, 2, 4, 8, 16, 32, 64, 128>>
    IN  IF bit < 8
        THEN [frame EXCEPT ![n] = Xor8Tab[@][Pow2[bit + 1]]]
        ELSE [frame EXCEPT ![n - 1] = Xor8Tab[@][Pow2[bit - 7]]]

\* big-endian bytes of a sequence of 16-bit words
WordBytes(words) ==
    [i \in 1..(2 * Len(words)) |->
        IF i % 2 = 1 THEN words[(i + 1) \div 2] \div 256 ELSE words[i \div 2] % 256]

MainWords ==
    <<2500, 65336, 10000, 20000, 1234, 955, 1000, 321, 3300, 2981,
      3310, 3290, 2991, 2971, 0, 100, 50, 0>>

CellWords ==
    <<3301, 3302, 3303, 3304, 3305, 3306, 3307, 3308, 3309, 3310, 3311, 3312,
      3313, 3314, 3315, 3316, 2981, 2982, 2983, 2984, 11, 12, 13, 14, 2975, 2990>>

\* all zero but byte 8 = 0x10
AlarmBytes == [i \in 1..18 |-> IF i = 9 THEN 16 ELSE 0]

\* byte 10 = 0x04 (charge low temperature), byte 11 = 0x70
AlarmHotBytes == [i \in 1..18 |-> IF i = 9 THEN 1 ELSE IF i = 11 THEN 4
                                  ELSE IF i = 12 THEN 112 ELSE 0]

OtherBytes == <<10, 20, 30, 40, 50, 60, 70, 80, 90, 100>>

FMain == Frame(1, 4, WordBytes(MainWords))
FCell == Frame(2, 4, WordBytes(CellWords))
FAlarm == Frame(2, 1, AlarmBytes)
FAlarmHot == Frame(3, 1, AlarmHotBytes)
FOther == Frame(3, 4, OtherBytes)
FEmpty == Frame(1, 4, <<>>)
FOne == Frame(2, 1, <<7>>)

Frames == {FMain, FCell, FAlarm, FAlarmHot, FOther, FEmpty, FOne}

NoiseBytes == {1, 4, 9}

\* the sequences over S of length lo..hi
SeqsOf(S, lo, hi) == UNION {[1..n -> S] : n \in lo..hi}

\* a header that announces more bytes than ever follow, a 7-byte frame with a
\* wrong CRC
NoiseStall == <<9, 4, 250>>
NoiseBadCrc == <<9, 4, 2, 0, 0, 0, 0>>

\* a header in front of f and the two CRC bytes behind it that make the three
\* together one frame
Wrapped(f) ==
    LET whole == Frame(9, 4, f)
    IN  [pre |-> SubSeq(whole, 1, 3), post |-> SubSeq(whole, Len(whole) - 1, Len(whole))]

FlipBits == {0, 15}

\* a frame whose payload holds the header 9, 4, 12, and behind its corrupted
\* copy an alarm frame whose first two payload bytes are the CRC of the bytes
\* from that header up to them
FTrap == Frame(3, 4, <<9, 4, 12, 0, 0, 0, 0, 0, 0, 0>>)

TrapFollower(corrupted) ==
    LET covered == SubSeq(corrupted, 4, Len(corrupted)) \o <<2, 1, 18>>
        c == calc_crc16(covered, Len(covered))
    IN  Frame(2, 1, [AlarmBytes EXCEPT ![1] = c \div 256, ![2] = c % 256])

Part(tag, bytes) == [tag |-> tag, bytes |-> bytes]

\* noise only
ScenNoise ==
    {<<Part("noise", n)>> : n \in SeqsOf(NoiseBytes, 1, MaxNoise) \cup {NoiseStall, NoiseBadCrc}}

\* two frames back to back
ScenPair == {<<Part("frame", f), Part("frame", g)>> : f \in Frames, g \in Frames}

\* noise, a frame, further traffic
ScenResync ==
    {<<Part("noise", n), Part("frame", f), Part("tail", t)>> :
        n \in SeqsOf(NoiseBytes, 0, MaxPre) \cup {NoiseStall, NoiseBadCrc},
        f \in {FMain, FAlarm, FOther, FEmpty},
        t \in {<<>>, <<9, 9>>}}
    \cup {<<Part("noise", Wrapped(f).pre), Part("frame", f), Part("tail", Wrapped(f).post)>> :
        f \in {FAlarm}}

\* a frame with one bit of its CRC flipped, a frame right behind it
ScenCorrupt ==
    {<<Part("corrupt", FlipCrcBit(f, b)), Part("frame", g)>> :
        f \in {FAlarm, FAlarmHot, FOther}, b \in FlipBits, g \in {FAlarm, FMain}}
    \cup {<<Part("corrupt", FlipCrcBit(FOther, b)), Part("frame", g)>> :
            b \in FlipBits, g \in {FEmpty, FOne}}
    \cup {<<Part("corrupt", FlipCrcBit(FTrap, b)),
            Part("frame", TrapFollower(FlipCrcBit(FTrap, b)))>> : b \in FlipBits}

\* the two CRC bytes of a frame in the opposite order
SwapCrc(frame) ==
    [frame EXCEPT ![Len(frame) - 1] = frame[Len(frame)], ![Len(frame)] = frame[Len(frame) - 1]]

\* a frame whose two CRC bytes are the same byte, fc = 252
FPalin == Frame(2, 4, <<0, 16>>)

\* a frame with its CRC bytes exchanged, a frame right behind it
ScenSwapped ==
    {<<Part("swapped", SwapCrc(f)), Part("frame", FAlarm)>> : f \in {FAlarm, FPalin}}

\* the three known byte counts under the other function code
FCoils36 == Frame(1, FcCoils, WordBytes(MainWords))
FCoils52 == Frame(2, FcCoils, WordBytes(CellWords))
FInput18 == Frame(3, FcInput, AlarmBytes)

ScenCross ==
    {<<Part("frame", f), Part("frame", FAlarm)>> : f \in {FCoils36, FCoils52, FInput18}}

Scenarios ==
    ScenNoise \cup ScenPair \cup ScenResync \cup ScenCorrupt \cup ScenSwapped \cup ScenCross

RECURSIVE Flatten(_)
Flatten(parts) ==
    IF parts = <<>> THEN <<>> ELSE Head(parts).bytes \o Flatten(Tail(parts))

Layout(parts) == [i \in 1..Len(parts) |-> [tag |-> parts[i].tag, len |-> Len(parts[i].bytes)]]

ClockStart == 1000

\* PackAggregator.__init__ (lines 21-29)
InitPack ==
    /\ pack_declared = FALSE
    /\ last_publish_time = 0 - ClockStart
    /\ pack_calls = 0

\* InfluxDBManager.__init__ (influxdb_manager.py, lines 38-44)
InitialDelay == 5
MaxReconnectAttempts == 10
MaxReconnectDelay == 300

\* lines 22-53, _setup_client having gone well
InitInflux ==
    /\ influx_connected = TRUE
    /\ reconnect_attempts = 0
    /\ reconnect_delay = InitialDelay
    /\ last_reconnect_attempt = 0 - ClockStart
    /\ reconnect_count = 0
    /\ last_try = [at |-> 0 - ClockStart, attempts |-> 0, since |-> 0, made |-> FALSE]

\* ModbusConnection.__init__ (modbus_client.py, lines 33-42)
InitModbus ==
    /\ mb_client = FALSE
    /\ mb_connected = FALSE
    /\ successful_reads = 0
    /\ failed_reads = 0
    /\ last_unit_id = 0
    /\ mb_call = [n |-> 0, unit |-> 0, outcomes |-> <<>>, events |-> <<>>, result |-> 0]

\* MQTTClient.__init__ (fronius_collector/mqtt_client.py, lines 19-34)
InitMQTTClient ==
    /\ running = FALSE
    /\ client_connected = FALSE
    /\ client_open = FALSE
    /\ reconnect_task = 0
    /\ tasks = <<>>
    /\ lifecycle = "new"
    /\ publishing = 0

\* InfluxClient.__init__ (fronius_collector/influxdb_client.py, lines 20-35)
\* and a start() whose _connect went well (lines 42-49, 67-84)
InitInfluxClient ==
    /\ point_buffer = <<>>
    /\ influx_up = TRUE
    /\ flushing = <<>>
    /\ written = {}
    /\ appended = 0
    /\ resolved = [points |-> <<>>, outcome |-> "none"]

\* what the handlers of the decoder do not touch, as it is built
InitFar == InitInflux /\ InitModbus /\ InitMQTTClient /\ InitInfluxClient

\* the aggregator, the health monitor and the MQTT manager after main() has
\* built them: connected, publish mode "changed", nothing cached or counted
InitSystem ==
    /\ mqttlog = <<>>
    /\ batteries = <<>>
    /\ now = 0
    /\ hpc = "wait"
    /\ hiter = [used |-> 0, idx |-> 0, current_time |-> 0, stale_count |-> 0]
    /\ health_checks_performed = 0
    /\ publish_mode = "changed"
    /\ connected = TRUE
    /\ last_values = <<>>
    /\ messages_published = 0
    /\ messages_skipped = 0
    /\ calls = <<>>
    /\ handed = <<>>
    /\ InitPack
    /\ InitFar

Init ==
    /\ \E sc \in Scenarios :
          /\ stream = Flatten(sc)
          /\ layout = Layout(sc)
    /\ pos = 0
    /\ data = <<>>
    /\ modbusdata = <<>>
    /\ pc = "host"
    /\ trashdata = FALSE
    /\ trashdataf = TrashInit
    /\ batts_declared_set = {}
    /\ records = <<>>
    /\ validated = <<>>
    /\ trashed = <<>>
    /\ trashruns = 0
    /\ consumed = 0
    /\ raised = FALSE
    /\ lastCall = "none"
    /\ split = FALSE
    /\ InitSystem

\* read_raw returns at most ReadSize bytes, and no more than the bus delivers
Remaining == IF Len(stream) - pos < ReadSize THEN Len(stream) - pos ELSE ReadSize

Next ==
    \/ \E k \in 1..Remaining : Feed(k)
    \/ IdleSkip
    \/ IdleStart
    \/ ScanNeedMoreData
    \/ ScanFrameValid
    \/ ScanDesync

Spec == Init /\ [][Next]_vars

TypeOK ==
    /\ pos \in 0..Len(stream)
    /\ pc \in {"host", "scan", "crashed"}
    /\ raised \in BOOLEAN

(***************************************************************************)
(* One whole call process_data(b"") on a decoder that holds the buffer B   *)
(* and has emitted nothing: the loop of _decode_modbus run to its return.  *)
(* A pass over n bytes is given n + 1 iterations; done tells whether it    *)
(* returned within them.                                                   *)
(***************************************************************************)
PassStep(s) ==
    LET a == Attempt(s.md, 0)
    IN  IF s.done THEN s
        ELSE IF a.needMoreData
        THEN [s EXCEPT !.md = ReturnedBuffer(s.md, a.bufferIndex), !.done = TRUE]
        ELSE IF a.responce
        THEN [s EXCEPT !.md = DropHead(s.md, a.bufferIndex),
                       !.recs = Emit(s.recs, a, s.off),
                       !.off = s.off + a.bufferIndex]
        ELSE [s EXCEPT !.md = DropHead(s.md, DesyncAdvance(0, a.bufferIndex)),
                       !.off = s.off + DesyncAdvance(0, a.bufferIndex)]

RECURSIVE Iterate(_, _)
Iterate(s, n) ==
    IF n <= 0 \/ s.done THEN s
    ELSE IF n = 1 THEN PassStep(s)
    ELSE LET h == Iterate(s, n \div 2)
         IN  IF h.done THEN h ELSE Iterate(h, n - (n \div 2))

OneChunk(B) ==
    IF Len(B) > HeaderLen
    THEN Iterate([md |-> B, recs |-> <<>>, off |-> 0, done |-> FALSE], Len(B) + 1)
    ELSE [md |-> B, recs |-> <<>>, off |-> 0, done |-> TRUE]

Fed == SubSeq(stream, 1, pos)

\* the last call was process_data(b"") and it has returned
AfterIdle == pc = "host" /\ lastCall = "idle"

\* everything the bus delivers has been fed and a last idle call has returned
Drained == AfterIdle /\ pos = Len(stream)

(***************************************************************************)
(* C1  Chunk-boundary independence.  Whatever chunks the fed bytes B came  *)
(* in and wherever idle calls fell between them, once an idle call has     *)
(* returned the records emitted and the bytes left in the buffer are those *)
(* of feeding B as one chunk to a fresh decoder, followed by one idle call.*)
(***************************************************************************)
ChunkBoundaryIndependence ==
    AfterIdle =>
        LET one == OneChunk(Fed)
        IN  /\ one.done
            /\ records = one.recs
            /\ data = one.md

\* two frames were fed in pieces with an idle pass in between, both decoded
ChunkBoundaryWitness ==
    /\ Drained /\ split
    /\ layout = <<[tag |-> "frame", len |-> Len(FMain)], [tag |-> "frame", len |-> Len(FAlarm)]>>
    /\ Len(records) = 2
    /\ data = <<>>


(***************************************************************************)
(* What the claims speak of.                                               *)
(***************************************************************************)
Tags == [i \in 1..Len(layout) |-> layout[i].tag]

\* the stream offset at which part i begins, and the bytes of part i
PartStart(i) ==
    IF i = 1 THEN 0
    ELSE IF i = 2 THEN layout[1].len
    ELSE layout[1].len + layout[2].len

PartEnd(i) == PartStart(i) + layout[i].len

PartBytes(i) == SubSeq(stream, PartStart(i) + 1, PartEnd(i))

\* B holds, from offset off on, a whole frame with function code 1 or 4 whose
\* CRC matches
ValidFrameAt(B, off) ==
    /\ off + 5 <= Len(B)
    /\ B[off + 2] \in {1, 4}
    /\ off + 5 + B[off + 3] <= Len(B)
    /\ LET f == SubSeq(B, off + 1, off + 5 + B[off + 3])
       IN  (f[Len(f) - 1] * 256) + f[Len(f)] = calc_crc16(f, Len(f) - 2)

NoValidFrame(B) == \A off \in 0..(Len(B) - 1) : ~ValidFrameAt(B, off)

\* the kind of record the table has for a frame, by its two header bytes
KindOf(functionCode, readByteCount) ==
    IF functionCode = 4 /\ readByteCount = 36 THEN "MainInfo"
    ELSE IF functionCode = 4 /\ readByteCount = 52 THEN "CellInfo"
    ELSE IF functionCode = 1 /\ readByteCount = 18 THEN "AlarmStatus"
    ELSE "none"

\* the decoder validated the len bytes from stream offset start as one frame
DecodedAt(start, len) ==
    \E i \in 1..Len(validated) : validated[i].start = start /\ validated[i].len = len

\* the indices of the records emitted for the frame at stream offset start
RecordsAt(start) == {i \in 1..Len(records) : records[i].start = start}

\* the record the frame at stream offset start has to give
RecordOf(start) ==
    LET n == stream[start + 3]
    IN  Record(KindOf(stream[start + 2], n), stream[start + 1],
               SubSeq(stream, start + 4, start + 3 + n), start)

\* the frame at stream offset start was decoded as a frame of its own, with
\* its record where the table has one
FrameDelivered(start, len) ==
    /\ DecodedAt(start, len)
    /\ KindOf(stream[start + 2], stream[start + 3]) # "none"
          => \E i \in RecordsAt(start) : records[i] = RecordOf(start)

\* no byte of stream[lo+1..hi] was trashed or taken into another frame
Untouched(lo, hi) ==
    /\ \A i \in 1..Len(trashed) : ~(trashed[i] >= lo /\ trashed[i] < hi)
    /\ \A i \in 1..Len(validated) :
          \/ validated[i].start + validated[i].len <= lo
          \/ validated[i].start >= hi
          \/ (validated[i].start = lo /\ validated[i].len = hi - lo)

\* every byte of stream[lo+1..hi] was trashed
AllTrashed(lo, hi) ==
    \A o \in lo..(hi - 1) : \E i \in 1..Len(trashed) : trashed[i] = o

RECURSIVE FrameBytes(_)
FrameBytes(vs) == IF vs = <<>> THEN 0 ELSE Head(vs).len + FrameBytes(Tail(vs))

Buffered == IF pc = "scan" THEN modbusdata ELSE data

(***************************************************************************)
(* C2  Byte accounting.  The bytes fed so far are the bytes of the         *)
(* validated frames, the bytes put into a trash run and the bytes still    *)
(* buffered, every one in exactly one of the three: the buffer is the fed  *)
(* stream from the first byte not yet consumed, every consumed byte lies   *)
(* in exactly one validated frame or is exactly one trashed byte, the      *)
(* trash runs begun are the stretches of adjacent trashed bytes, and       *)
(* self.trashdataf holds the bytes of the last of them.                    *)
(***************************************************************************)
\* the places in trashed at which a stretch of adjacent stream offsets begins
RunStarts == {i \in 1..Len(trashed) : i = 1 \/ trashed[i] # trashed[i - 1] + 1}

ByteAccounting ==
    /\ Buffered = SubSeq(stream, consumed + 1, pos)
    /\ pos = Len(Buffered) + FrameBytes(validated) + Len(trashed)
    /\ \A o \in 0..(consumed - 1) :
          Cardinality({i \in 1..Len(trashed) : trashed[i] = o})
          + Cardinality({i \in 1..Len(validated) :
                validated[i].start <= o /\ o < validated[i].start + validated[i].len})
          = 1
    /\ trashruns = Cardinality(RunStarts)
    /\ trashdata => ~trashdataf.closed
    /\ LET k == Len(trashdataf.bytes)
           n == Len(trashed)
       IN  /\ k <= n
           /\ n > 0 => n - k + 1 \in RunStarts /\ \A i \in RunStarts : i <= n - k + 1
           /\ \A j \in 1..k : trashdataf.bytes[j] = stream[trashed[n - k + j] + 1]

\* bytes in each of the three places at once
ByteAccountingWitness ==
    /\ Len(Buffered) > 0
    /\ validated # <<>>
    /\ Len(trashed) >= 2

(***************************************************************************)
(* C3  Forward progress.                                                   *)
(***************************************************************************)
NoiseOnly == Tags = <<"noise">> /\ NoValidFrame(stream)

\* a pass that began with the whole stream in the buffer returns
WholePassReturns == pc = "scan" /\ pc' = "host" /\ data = stream

\* what a pass leaves behind: no header with its count, or a header with
\* function code 1 or 4 whose frame is not all there
IncompleteCandidate(b) ==
    \/ Len(b) < 3
    \/ /\ b[2] \in {1, 4}
       /\ Len(b) < 7 \/ Len(b) < 5 + b[3]

\* C3 as stated: a pass over N bytes that hold no valid frame discards all N
\* bytes as one trash run and leaves the buffer empty
ForwardProgressAsStated ==
    [][(NoiseOnly /\ WholePassReturns)
        => (data' = <<>> /\ Len(trashed') = Len(stream) /\ trashruns' = 1)]_vars

\* C3 as amended: a pass over N bytes that hold no valid frame makes at most
\* N iterations that do not return, each of which shortens the buffer; it
\* emits nothing; when it returns the bytes it removed are the first k bytes,
\* all of them in one trash run, and the bytes it leaves are the other
\* N - k, an incomplete candidate
ForwardProgress ==
    /\ [][(NoiseOnly /\ pc = "scan" /\ pc' = "scan")
            => Len(modbusdata') < Len(modbusdata)]_vars
    /\ [][(NoiseOnly /\ WholePassReturns)
            => LET k == Len(trashed')
               IN  /\ data' = SubSeq(stream, k + 1, Len(stream))
                   /\ trashed' = [j \in 1..k |-> j - 1]
                   /\ trashdataf'.bytes = SubSeq(stream, 1, k)
                   /\ trashruns' = (IF k = 0 THEN 0 ELSE 1)
                   /\ records' = <<>> /\ validated' = <<>>
                   /\ IncompleteCandidate(data')]_vars
    /\ [](NoiseOnly /\ pc = "scan"
            => ENABLED (ScanNeedMoreData \/ ScanFrameValid \/ ScanDesync))

\* a pass over seven bytes that hold no frame has returned: five bytes in the
\* one trash run, two left
ForwardProgressWitness ==
    /\ NoiseOnly /\ stream = NoiseBadCrc
    /\ pc = "host" /\ lastCall = "idle"
    /\ Len(trashed) = 5 /\ trashruns = 1 /\ Len(data) = 2

(***************************************************************************)
(* C4  Resynchronisation.                                                  *)
(***************************************************************************)
\* noise that holds no valid frame, a valid frame, further traffic
IsResync ==
    /\ Tags = <<"noise", "frame", "tail">>
    /\ NoValidFrame(PartBytes(1))
    /\ ValidFrameAt(stream, PartStart(2))
    /\ stream[PartStart(2) + 3] + 5 = layout[2].len

\* C4 as stated: the frame behind the noise is never trashed or swallowed,
\* and once the buffer head has passed it, it has been delivered
ResyncAsStated ==
    IsResync
    => /\ Untouched(PartStart(2), PartEnd(2))
       /\ (pc = "host" /\ consumed >= PartEnd(2))
             => FrameDelivered(PartStart(2), layout[2].len)

\* no byte of stream[lo+1..hi] is followed by a function code 1 or 4, so no
\* candidate with a byte count opens at any of them
OpensNoCandidate(lo, hi) == \A o \in lo..(hi - 1) : stream[o + 2] \notin {1, 4}

\* C4 as amended: when no noise byte is followed by a byte 1 or 4, the frame
\* is never trashed or swallowed, and an idle call that returns when the
\* frame and at least 7 bytes from its start have been fed has trashed every
\* noise byte and delivered the frame
Resync ==
    (IsResync /\ OpensNoCandidate(0, PartEnd(1)))
    => /\ Untouched(PartStart(2), PartEnd(2))
       /\ (AfterIdle /\ pos >= PartEnd(2) /\ pos >= PartStart(2) + 7)
             => /\ AllTrashed(0, PartEnd(1))
                /\ FrameDelivered(PartStart(2), layout[2].len)

\* two noise bytes were trashed and the alarm frame behind them delivered,
\* after a pass had returned in the middle of the stream
ResyncWitness ==
    /\ IsResync /\ OpensNoCandidate(0, PartEnd(1))
    /\ layout[1].len = 2 /\ PartBytes(2) = FAlarm
    /\ Drained /\ split
    /\ AllTrashed(0, 2)
    /\ FrameDelivered(2, Len(FAlarm))

(***************************************************************************)
(* C5  Single-bit CRC corruption.                                          *)
(***************************************************************************)
PowersOfTwo == {1, 2, 4, 8, 16, 32, 64, 128, 256, 512, 1024, 2048, 4096, 8192, 16384, 32768}

\* f is laid out as a frame and its CRC field differs from the CRC of its
\* other bytes in exactly one bit
OneCrcBitFlipped(f) ==
    /\ Len(f) >= 5 /\ f[2] \in {1, 4} /\ Len(f) = 5 + f[3]
    /\ BitXor((f[Len(f) - 1] * 256) + f[Len(f)], calc_crc16(f, Len(f) - 2)) \in PowersOfTwo

\* a frame with one CRC bit flipped, a valid frame right behind it
IsCorrupt ==
    /\ Tags = <<"corrupt", "frame">>
    /\ OneCrcBitFlipped(PartBytes(1))
    /\ ValidFrameAt(stream, PartStart(2))
    /\ stream[PartStart(2) + 3] + 5 = layout[2].len

\* C5 as stated: with both in the buffer the pass trashes the first byte of
\* the corrupted frame and delivers the frame behind it
CorruptionAsStated ==
    (IsCorrupt /\ Drained)
    => /\ \E i \in 1..Len(trashed) : trashed[i] = 0
       /\ FrameDelivered(PartStart(2), layout[2].len)

\* C5 as amended: when no byte of the corrupted frame after its first is
\* followed by a byte 1 or 4, no byte of the frame behind it is ever trashed
\* or swallowed, and if that frame is 7 bytes or longer, with both in the
\* buffer the pass trashes the corrupted frame byte by byte, first byte
\* first, in one trash run, delivers the frame behind it and leaves the
\* buffer empty
Corruption ==
    (IsCorrupt /\ OpensNoCandidate(1, PartEnd(1)))
    => /\ Untouched(PartStart(2), PartEnd(2))
       /\ (Drained /\ layout[2].len >= MinFrameLen)
             => /\ trashed = [j \in 1..PartEnd(1) |-> j - 1]
                /\ trashruns = 1
                /\ trashdataf.bytes = PartBytes(1) /\ trashdataf.closed
                /\ FrameDelivered(PartStart(2), layout[2].len)
                /\ data = <<>>

\* the alarm frame with the lowest bit of its CRC flipped was trashed whole and
\* the alarm frame behind it delivered
CorruptionWitness ==
    /\ IsCorrupt /\ OpensNoCandidate(1, PartEnd(1))
    /\ PartBytes(1) = FlipCrcBit(FAlarm, 0) /\ PartBytes(2) = FAlarm
    /\ Drained
    /\ Len(trashed) = Len(FAlarm)
    /\ Len(records) = 1 /\ records[1].kind = "AlarmStatus" /\ records[1].unit = 2

(***************************************************************************)
(* C6  Back-to-back frames.                                                *)
(***************************************************************************)
IsPair ==
    /\ Tags = <<"frame", "frame">>
    /\ ValidFrameAt(stream, 0) /\ stream[3] + 5 = layout[1].len
    /\ ValidFrameAt(stream, PartStart(2)) /\ stream[PartStart(2) + 3] + 5 = layout[2].len

Known(start) == KindOf(stream[start + 2], stream[start + 3]) # "none"

StreamWord(start, w) == (stream[start + 4 + (2 * w)] * 256) + stream[start + 5 + (2 * w)]

TwosComplement(w) == IF w >= 32768 THEN w - 65536 ELSE w

\* the MainInfo values of the frame at stream offset start, word by word
MainInfoOf(r) ==
    /\ r.fields.pack_voltage = StreamWord(r.start, 0)
    /\ r.fields.current = TwosComplement(StreamWord(r.start, 1))
    /\ r.fields.remaining_capacity = StreamWord(r.start, 2)
    /\ r.fields.total_capacity = StreamWord(r.start, 3)
    /\ r.fields.total_discharge_capacity = 10 * StreamWord(r.start, 4)
    /\ r.fields.soc = StreamWord(r.start, 5)
    /\ r.fields.soh = StreamWord(r.start, 6)
    /\ r.fields.cycles = StreamWord(r.start, 7)
    /\ r.fields.average_cell_voltage = StreamWord(r.start, 8)
    /\ r.fields.average_cell_temp = StreamWord(r.start, 9)
    /\ r.fields.max_cell_voltage = StreamWord(r.start, 10)
    /\ r.fields.min_cell_voltage = StreamWord(r.start, 11)
    /\ r.fields.max_cell_temp = StreamWord(r.start, 12)
    /\ r.fields.min_cell_temp = StreamWord(r.start, 13)
    /\ r.fields.maxdiscurt = StreamWord(r.start, 15)
    /\ r.fields.maxchgcurt = StreamWord(r.start, 16)
    /\ r.fields.cell_delta = StreamWord(r.start, 10) - StreamWord(r.start, 11)

\* every frame the decoder validated lies in the stream where it says, and
\* if its kind is (4,36), (4,52) or (1,18) exactly one record was emitted for
\* it: of that kind, with its unit id and its payload, a MainInfo record with
\* the values of its 18 words; and there is no record without such a frame
ExactlyOneRecord ==
    /\ \A i \in 1..Len(validated) :
          LET v == validated[i]
              kind == KindOf(stream[v.start + 2], stream[v.start + 3])
          IN  /\ v.start + v.len <= pos
              /\ v.len = 5 + stream[v.start + 3]
              /\ kind # "none"
                    => /\ Cardinality(RecordsAt(v.start)) = 1
                       /\ \A j \in RecordsAt(v.start) :
                             /\ records[j].kind = kind
                             /\ records[j].unit = stream[v.start + 1]
                             /\ records[j].readData
                                   = SubSeq(stream, v.start + 4, v.start + v.len - 2)
                             /\ kind = "MainInfo" => MainInfoOf(records[j])
    /\ \A j \in 1..Len(records) :
          \E i \in 1..Len(validated) :
             /\ validated[i].start = records[j].start
             /\ Known(validated[i].start)

\* the main frame was decoded, idle calls went on, and its one record has
\* 25.00 V, -2.00 A, 321 cycles and a cell delta of 20
ExactlyOneRecordWitness ==
    /\ Drained /\ split
    /\ PartBytes(1) = FMain
    /\ Cardinality(RecordsAt(0)) = 1
    /\ records[1].kind = "MainInfo" /\ records[1].unit = 1
    /\ records[1].fields.pack_voltage = 2500
    /\ records[1].fields.current = -200
    /\ records[1].fields.cycles = 321
    /\ records[1].fields.cell_delta = 20

Ordering ==
    /\ [][\/ records' = records
          \/ /\ Len(records') = Len(records) + 1
             /\ SubSeq(records', 1, Len(records)) = records]_vars
    /\ [](\A j \in 1..Len(records) :
             /\ records[j].start + 5 + Len(records[j].readData) <= pos
             /\ records[j] = RecordOf(records[j].start))
    /\ [](\A i, j \in 1..Len(records) :
             i < j => records[i].start + 5 + Len(records[i].readData) <= records[j].start)

\* two records of frames that did not arrive in one chunk
OrderingWitness ==
    /\ Drained /\ split
    /\ Len(records) = 2
    /\ records[1].start = 0 /\ records[2].start = Len(FAlarm)
    /\ records[1].kind = "AlarmStatus" /\ records[2].kind = "CellInfo"

(***************************************************************************)
(* C10  No fatal error.                                                    *)
(***************************************************************************)
\* no exception is raised; an iteration of the scan loop reads no index
\* outside the buffer and ends in exactly one of three ways: it returns the
\* buffer as it is (NeedMoreData), it removes the 5 + byte count bytes of a
\* frame whose CRC matched (FrameValid), or it moves the first byte into the
\* trash run (Desync); a candidate that is not all there is deferred, a
\* complete one with a wrong CRC or another function code costs one byte
NoFatalError ==
    /\ [](~raised /\ pc # "crashed")
    /\ [](pc = "scan"
            => LET a == Attempt(modbusdata, 0)
               IN  /\ ~a.indexError
                   /\ ~(a.needMoreData /\ a.responce)
                   /\ Len(modbusdata) >= 3 /\ modbusdata[2] \notin {1, 4}
                         => ~a.needMoreData /\ ~a.responce
                   /\ Len(modbusdata) >= 3 /\ modbusdata[2] \in {1, 4}
                      /\ (Len(modbusdata) < 7 \/ Len(modbusdata) < 5 + modbusdata[3])
                         => a.needMoreData
                   /\ Len(modbusdata) >= 7 /\ modbusdata[2] \in {1, 4}
                      /\ Len(modbusdata) >= 5 + modbusdata[3]
                         => ~a.needMoreData /\ (a.responce <=> ValidFrameAt(modbusdata, 0)))
    /\ [][pc = "scan"
            => \/ /\ pc' = "host"
                  /\ data' = modbusdata
                  /\ UNCHANGED <<records, validated, trashed, consumed>>
               \/ /\ pc' = "scan"
                  /\ Len(modbusdata) >= 5 + modbusdata[3]
                  /\ modbusdata' = SubSeq(modbusdata, 6 + modbusdata[3], Len(modbusdata))
                  /\ Len(validated') = Len(validated) + 1
                  /\ UNCHANGED trashed
               \/ /\ pc' = "scan"
                  /\ modbusdata' = Tail(modbusdata)
                  /\ trashed' = Append(trashed, consumed)
                  /\ UNCHANGED <<records, validated>>]_vars

\* noise was discarded, a frame was consumed and a remainder deferred, the
\* bytes having come in pieces, without an exception
NoFatalErrorWitness ==
    /\ Drained /\ split /\ ~raised
    /\ trashed # <<>> /\ validated # <<>> /\ data # <<>>

(***************************************************************************)
(* C11  Header threshold.                                                  *)
(***************************************************************************)
\* C11 as stated: an idle call leaves no two bytes at the head of the buffer
\* of which the second is not a function code 1 or 4: the pass would have
\* discarded the first of them
HeaderThresholdAsStated ==
    AfterIdle => (Len(data) < 2 \/ data[2] \in {1, 4})

\* C11 as amended: an idle call runs a pass when 3 bytes or more are
\* buffered and does nothing when fewer are; an attempt with fewer than 3
\* bytes left returns the buffer as it is; an attempt with 3 bytes or more
\* left of which the second is neither 1 nor 4 discards exactly the first
\* byte and goes on; so an idle call leaves fewer than 3 bytes or a second
\* byte 1 or 4
HeaderThreshold ==
    /\ [][(pc = "host" /\ pos' = pos)
            => /\ (Len(data) >= 3 <=> pc' = "scan")
               /\ data' = data
               /\ pc' = "scan" => modbusdata' = data
               /\ UNCHANGED <<records, trashed, validated, consumed>>]_vars
    /\ [][(pc = "scan" /\ Len(modbusdata) < 3)
            => /\ pc' = "host"
               /\ data' = modbusdata
               /\ UNCHANGED <<records, trashed, validated, consumed>>]_vars
    /\ [][(pc = "scan" /\ Len(modbusdata) >= 3 /\ modbusdata[2] \notin {1, 4})
            => /\ pc' = "scan"
               /\ modbusdata' = Tail(modbusdata)
               /\ trashed' = Append(trashed, consumed)
               /\ consumed' = consumed + 1
               /\ trashdataf'.bytes[Len(trashdataf'.bytes)] = modbusdata[1]
               /\ UNCHANGED <<records, validated>>]_vars
    /\ [](AfterIdle => (Len(data) < 3 \/ data[2] \in {1, 4}))

\* of four bytes 09 the pass discarded two and left two
HeaderThresholdWitness ==
    /\ AfterIdle
    /\ stream = <<9, 9, 9, 9>> /\ pos = 4
    /\ data = <<9, 9>>
    /\ trashed = <<0, 1>>

(***************************************************************************)
(* C12  Frame-length threshold.                                            *)
(***************************************************************************)
\* b begins with a header with function code 1 or 4 and holds the
\* 5 + byte count bytes of its frame
CandidateComplete(b) ==
    Len(b) >= 3 /\ b[2] \in {1, 4} /\ Len(b) >= 5 + b[3]

\* C12 as stated: an idle call never leaves a candidate at the head of the
\* buffer of which all 5 + byte count bytes are there: the pass would have
\* checked its CRC and removed the frame or its first byte
FrameThresholdAsStated ==
    AfterIdle => ~CandidateComplete(data)

\* C12 as amended: an attempt on a header with function code 1 or 4 returns
\* the buffer as it is when fewer than 7 bytes or fewer than 5 + byte count
\* bytes are left; when at least 7 and at least 5 + byte count bytes are
\* left it checks the CRC in this pass, removing the 5 + byte count bytes of
\* the frame if it matches and the first byte if not; so an idle call leaves
\* a complete candidate only if it is shorter than 7 bytes
FrameThreshold ==
    /\ [][(pc = "scan" /\ Len(modbusdata) >= 3 /\ modbusdata[2] \in {1, 4}
           /\ (Len(modbusdata) < 7 \/ Len(modbusdata) < 5 + modbusdata[3]))
            => /\ pc' = "host"
               /\ data' = modbusdata
               /\ UNCHANGED <<records, trashed, validated, consumed>>]_vars
    /\ [][(pc = "scan" /\ Len(modbusdata) >= 7 /\ CandidateComplete(modbusdata))
            => /\ pc' = "scan"
               /\ IF ValidFrameAt(modbusdata, 0)
                  THEN /\ modbusdata' = SubSeq(modbusdata, 6 + modbusdata[3], Len(modbusdata))
                       /\ validated' # validated
                       /\ validated'[Len(validated')].start = consumed
                       /\ validated'[Len(validated')].len = 5 + modbusdata[3]
                       /\ UNCHANGED trashed
                  ELSE /\ modbusdata' = Tail(modbusdata)
                       /\ trashed' = Append(trashed, consumed)
                       /\ UNCHANGED <<validated, records>>]_vars
    /\ [](AfterIdle => (CandidateComplete(data) => Len(data) < 7))

\* a frame with no payload was validated because 7 bytes were there, and the
\* complete 6-byte frame behind it stays in the buffer
FrameThresholdWitness ==
    /\ Drained
    /\ PartBytes(1) = FEmpty /\ PartBytes(2) = FOne
    /\ Len(validated) = 1 /\ validated[1].len = 5
    /\ data = FOne /\ CandidateComplete(data)

(***************************************************************************)
(* C13  What a valid frame does to the buffer.                             *)
(***************************************************************************)
\* a step that validates a frame is a step of the loop: it removes exactly
\* the 5 + byte count bytes of the frame from the head of the buffer, leaves
\* the bytes behind them as they were, discards nothing, and stays in the
\* loop of the same pass; while the loop runs there is no call of
\* process_data; a pass never returns with a valid frame of 7 bytes or more
\* at the head
FrameAdvance ==
    /\ [][validated' # validated
            => /\ pc = "scan" /\ pc' = "scan"
               /\ ValidFrameAt(modbusdata, 0)
               /\ validated' = Append(validated, validated'[Len(validated')])
               /\ validated'[Len(validated')].start = consumed
               /\ validated'[Len(validated')].len = 5 + modbusdata[3]
               /\ consumed' = consumed + 5 + modbusdata[3]
               /\ modbusdata' = SubSeq(modbusdata, 6 + modbusdata[3], Len(modbusdata))
               /\ modbusdata' = SubSeq(stream, consumed' + 1, pos)
               /\ UNCHANGED <<pos, data, lastCall, trashed, trashruns>>]_vars
    /\ [][pc = "scan" => UNCHANGED <<pos, lastCall>>]_vars
    /\ [][(pc = "scan" /\ pc' = "host")
            => ~(Len(modbusdata) >= 7 /\ ValidFrameAt(modbusdata, 0))]_vars

\* the alarm frame has just been validated and the loop stands at the main
\* frame behind it, all in the one idle call
FrameAdvanceWitness ==
    /\ pc = "scan" /\ lastCall = "idle"
    /\ PartBytes(1) = FAlarm /\ PartBytes(2) = FMain
    /\ pos = Len(stream)
    /\ Len(validated) = 1 /\ consumed = Len(FAlarm)
    /\ modbusdata = FMain
    /\ data = stream

(***************************************************************************)
(* C14  What a desync does to the buffer.                                  *)
(***************************************************************************)
\* the attempt at the head of b fails: the function code is neither 1 nor 4,
\* or the candidate is all there, 7 bytes or more, and its CRC does not match
AttemptFails(b) ==
    /\ Len(b) >= 3
    /\ \/ b[2] \notin {1, 4}
       \/ Len(b) >= 7 /\ CandidateComplete(b) /\ ~ValidFrameAt(b, 0)

\* a byte is discarded exactly when the attempt at the head fails; the step
\* removes the one byte at the head and nothing else, the bytes behind it,
\* the rest of the failed candidate among them, are the new buffer, the byte
\* is appended to the open trash run or begins a new one if none is open,
\* and the loop goes on at the next byte
DesyncAdvanceOne ==
    /\ [][(pc = "scan" /\ AttemptFails(modbusdata)) => trashed' # trashed]_vars
    /\ [][trashed' # trashed
            => /\ pc = "scan" /\ pc' = "scan"
               /\ AttemptFails(modbusdata)
               /\ trashed' = Append(trashed, consumed)
               /\ consumed' = consumed + 1
               /\ modbusdata' = Tail(modbusdata)
               /\ modbusdata' = SubSeq(stream, consumed' + 1, pos)
               /\ trashdata'
               /\ ~trashdataf'.closed
               /\ trashdataf'.bytes
                     = (IF trashdata THEN trashdataf.bytes ELSE <<>>) \o <<modbusdata[1]>>
               /\ trashruns' = trashruns + (IF trashdata THEN 0 ELSE 1)
               /\ UNCHANGED <<pos, data, lastCall, records, validated>>]_vars

\* the corrupted alarm frame has lost its first two bytes to one trash run
\* and the other 21 are still at the head of the buffer
DesyncAdvanceOneWitness ==
    /\ pc = "scan"
    /\ PartBytes(1) = FlipCrcBit(FAlarm, 0) /\ PartBytes(2) = FAlarm
    /\ pos = Len(stream)
    /\ trashed = <<0, 1>> /\ trashruns = 1
    /\ trashdataf.bytes = <<2, 1>>
    /\ modbusdata = SubSeq(stream, 3, Len(stream))

(***************************************************************************)
(* C15  Trash flushing.                                                    *)
(***************************************************************************)
\* C15: when a pass has ended in NeedMoreData no trash run is open: the flag
\* self.trashdata is down and the text of the last run, if there was one, has
\* been closed and handed on
TrashFlushing ==
    AfterIdle => (~trashdata /\ (trashdataf.isStr => trashdataf.closed))

(***************************************************************************)
(* C16  CRC acceptance.                                                    *)
(***************************************************************************)
\* the CRC of the first 3 + byte count bytes of b, and the two bytes behind
\* them read as first * 256 + second
ComputedCrc(b) == calc_crc16(SubSeq(b, 1, 3 + b[3]), 3 + b[3])

TrailingCrc(b) == (b[4 + b[3]] * 256) + b[5 + b[3]]

\* a candidate of 7 bytes or more that is all there is accepted if and only
\* if the CRC of its first 3 + byte count bytes is first trailing byte * 256
\* + second trailing byte, and rejected with the loss of its first byte
\* otherwise; a frame with its two CRC bytes exchanged is accepted if and
\* only if the two bytes are equal
CrcAcceptance ==
    /\ [][(pc = "scan" /\ Len(modbusdata) >= 7 /\ CandidateComplete(modbusdata))
            => /\ validated' # validated <=> ComputedCrc(modbusdata) = TrailingCrc(modbusdata)
               /\ validated' # validated
                     => validated'[Len(validated')].len = 5 + modbusdata[3]
               /\ trashed' # trashed <=> ComputedCrc(modbusdata) # TrailingCrc(modbusdata)]_vars
    /\ []((Tags[1] = "swapped" /\ AfterIdle /\ pos >= PartEnd(1) /\ pos >= 7)
            => /\ DecodedAt(0, layout[1].len) <=> stream[PartEnd(1) - 1] = stream[PartEnd(1)]
               /\ (\E i \in 1..Len(trashed) : trashed[i] = 0)
                     <=> stream[PartEnd(1) - 1] # stream[PartEnd(1)])

\* the alarm frame with its CRC bytes c6 b9 sent as b9 c6 was rejected and
\* discarded, the one behind it accepted
CrcAcceptanceWitness ==
    /\ Drained
    /\ Tags[1] = "swapped" /\ PartBytes(1) = SwapCrc(FAlarm)
    /\ stream[PartEnd(1) - 1] = 185 /\ stream[PartEnd(1)] = 198
    /\ ~DecodedAt(0, Len(FAlarm))
    /\ trashed[1] = 0
    /\ DecodedAt(Len(FAlarm), Len(FAlarm))

(***************************************************************************)
(* C17  Dispatch on the pair (function code, byte count).                  *)
(***************************************************************************)
\* the function code and the byte count of the frame at stream offset start
PairAt(start) == <<stream[start + 2], stream[start + 3]>>

\* every record is a MainInfo record of a validated (4,36) frame, a CellInfo
\* record of a validated (4,52) frame or an AlarmStatus record of a validated
\* (1,18) frame, and a validated frame with any other pair, (1,36), (1,52)
\* and (4,18) among them, has no record
StrictDispatch ==
    /\ \A j \in 1..Len(records) :
          /\ \E i \in 1..Len(validated) : validated[i].start = records[j].start
          /\ records[j].kind = "MainInfo" <=> PairAt(records[j].start) = <<4, 36>>
          /\ records[j].kind = "CellInfo" <=> PairAt(records[j].start) = <<4, 52>>
          /\ records[j].kind = "AlarmStatus" <=> PairAt(records[j].start) = <<1, 18>>
          /\ records[j].kind \in {"MainInfo", "CellInfo", "AlarmStatus"}
    /\ \A i \in 1..Len(validated) :
          /\ PairAt(validated[i].start)
                = <<validated[i].functionCode, validated[i].readByteCount>>
          /\ PairAt(validated[i].start) \in {<<4, 36>>, <<4, 52>>, <<1, 18>>}
                <=> RecordsAt(validated[i].start) # {}

\* a valid frame with function code 1 and 36 bytes was consumed without a
\* record, the alarm frame behind it gave the only one
StrictDispatchWitness ==
    /\ Drained
    /\ PartBytes(1) = FCoils36
    /\ Len(validated) = 2
    /\ validated[1].functionCode = 1 /\ validated[1].readByteCount = 36
    /\ Len(records) = 1
    /\ records[1].kind = "AlarmStatus" /\ records[1].start = Len(FCoils36)

(***************************************************************************)
(* C18  Feed appends, only a pass removes.                                 *)
(***************************************************************************)
\* a call with a non-empty chunk puts the chunk, in order, behind the bytes
\* already buffered and does nothing else: no loop is entered, no record is
\* emitted, no byte is discarded, nothing is removed; and the buffer changes
\* in no other way than by such an append, by the loss of the 5 + byte count
\* bytes of a validated frame at its head or by the loss of one discarded
\* byte at its head, the last two inside the pass of an idle call
FeedAppends ==
    /\ [][pos' # pos
            => /\ pc = "host" /\ pc' = "host"
               /\ pos' > pos
               /\ data' = data \o SubSeq(stream, pos + 1, pos')
               /\ lastCall' = "feed"
               /\ UNCHANGED <<modbusdata, records, validated, trashed, trashruns,
                              trashdata, trashdataf, consumed, batts_declared_set>>]_vars
    /\ [][Buffered' # Buffered
            => \/ /\ pos' > pos
                  /\ Buffered' = Buffered \o SubSeq(stream, pos + 1, pos')
               \/ /\ pc = "scan" /\ lastCall = "idle" /\ pos' = pos
                  /\ validated' # validated
                  /\ Buffered' = SubSeq(Buffered, 6 + Buffered[3], Len(Buffered))
               \/ /\ pc = "scan" /\ lastCall = "idle" /\ pos' = pos
                  /\ trashed' # trashed
                  /\ Buffered' = Tail(Buffered)]_vars

\* a chunk has been appended behind bytes an earlier pass had left
FeedAppendsWitness ==
    /\ pc = "host" /\ lastCall = "feed"
    /\ consumed > 0 /\ split
    /\ Len(data) > 3
    /\ pos - consumed = Len(data)
    /\ validated # <<>> /\ trashed # <<>>

(***************************************************************************)
(* The alarm frames: every value of the status byte, and every flag byte   *)
(* 9..14 with one bit or all bits set, each as the payload of a valid      *)
(* frame (1, 18) that the decoder is fed and decodes.                      *)
(***************************************************************************)
AlarmPayload(byte, value) == [i \in 1..AlarmLen |-> IF i = byte + 1 THEN value ELSE 0]

StatusPayloads == {AlarmPayload(8, v) : v \in 0..255}

FlagValues == {1, 2, 4, 8, 16, 32, 64, 128, 255}

FlagPayloads == {AlarmPayload(b, v) : b \in {9, 10, 11, 12, 13, 14}, v \in FlagValues}

\* bytes 6 and 7, the balancing bitmap: no bit, one bit, every other bit
\* and all bits of either byte
BalancingBytes == {0, 1, 2, 4, 8, 16, 32, 64, 128, 85, 170, 255}

BalancingPayloads ==
    {[i \in 1..AlarmLen |-> IF i = 6 + 1 THEN lo ELSE IF i = 7 + 1 THEN hi ELSE 0] :
        lo \in BalancingBytes, hi \in BalancingBytes}

AlarmScenarios ==
    {<<Part("frame", Frame(2, FcCoils, p))>> :
        p \in StatusPayloads \cup FlagPayloads \cup BalancingPayloads}
    \cup {<<Part("noise", <<9>>), Part("frame", Frame(2, FcCoils, AlarmPayload(8, 16)))>>}

InitAlarm ==
    /\ \E sc \in AlarmScenarios :
          /\ stream = Flatten(sc)
          /\ layout = Layout(sc)
    /\ pos = 0
    /\ data = <<>>
    /\ modbusdata = <<>>
    /\ pc = "host"
    /\ trashdata = FALSE
    /\ trashdataf = TrashInit
    /\ batts_declared_set = {}
    /\ records = <<>>
    /\ validated = <<>>
    /\ trashed = <<>>
    /\ trashruns = 0
    /\ consumed = 0
    /\ raised = FALSE
    /\ lastCall = "none"
    /\ split = FALSE
    /\ InitSystem

SpecAlarm == InitAlarm /\ [][Next]_vars

(***************************************************************************)
(* C19  Operating status priority.                                         *)
(***************************************************************************)
StatusNames == <<"Discharge", "Charge", "Floating charge", "Full charge", "Standby", "Off">>

\* the bits 0..5 that are set in b
SetBits(b) == {n \in 0..5 : (b \div (2 ^ n)) % 2 = 1}

\* the status of the lowest of the bits 0..5 set in b, Unknown if none is
FirstSetStatus(b) ==
    IF SetBits(b) = {} THEN "Unknown"
    ELSE StatusNames[(CHOOSE n \in SetBits(b) : \A m \in SetBits(b) : n <= m) + 1]

\* byte 8 of the payload of the frame at stream offset start
StatusByteAt(start) == stream[start + 4 + 8]

\* every AlarmStatus record carries the status of the lowest set bit among
\* bits 0..5 of byte 8 of its frame, Unknown when none of them is set,
\* whatever other bits are set, and no record is withheld or error raised
\* because several are; byte 8 = 0x10 gives Standby
StatusPriority ==
    /\ ~raised
    /\ \A j \in 1..Len(records) :
          records[j].kind = "AlarmStatus"
          => /\ records[j].fields.status = FirstSetStatus(StatusByteAt(records[j].start))
             /\ StatusByteAt(records[j].start) = 16 => records[j].fields.status = "Standby"
    /\ \A i \in 1..Len(validated) :
          PairAt(validated[i].start) = <<1, 18>> => RecordsAt(validated[i].start) # {}

\* byte 8 = 0xf8, bits 3 to 7 all set, was decoded as Full charge
StatusPriorityWitness ==
    /\ Drained
    /\ Len(records) = 1 /\ records[1].kind = "AlarmStatus"
    /\ StatusByteAt(0) = 248
    /\ records[1].fields.status = "Full charge"

(***************************************************************************)
(* C20  protection_count and alarm_count.                                  *)
(***************************************************************************)
\* C20: protection_count counts a strict subset of the flags alarm_count
\* counts, so in every AlarmStatus record protection_count <= alarm_count,
\* and alarm_count > 0 whenever protection_count > 0
ProtectionSubset ==
    \A j \in 1..Len(records) :
       records[j].kind = "AlarmStatus"
       => /\ records[j].fields.protection_count <= records[j].fields.alarm_count
          /\ records[j].fields.protection_count > 0 => records[j].fields.alarm_count > 0

(***************************************************************************)
(* C21  CellInfo layout.                                                   *)
(***************************************************************************)
\* word / 10 - 273.15 in hundredths of a degree
KelvinTenthsToCelsius(word) == (word * 10) - 27315

\* the 16 cell voltages and the 4 cell temperatures of a CellInfo record are
\* the words 0..15 and 16..19 of its frame
CellsOf(r) ==
    /\ \A n \in 1..16 : r.fields.cell_voltages[n] = StreamWord(r.start, n - 1)
    /\ \A n \in 1..4 :
          r.fields.cell_temps[n] = KelvinTenthsToCelsius(StreamWord(r.start, 15 + n))

\* C21 as stated: ambient_temp is taken from word 20, the word right behind
\* the cell temperatures, and mosfet_temp from the last word
CellLayoutAsStated ==
    \A j \in 1..Len(records) :
       records[j].kind = "CellInfo"
       => /\ CellsOf(records[j])
          /\ records[j].fields.ambient_temp
                = KelvinTenthsToCelsius(StreamWord(records[j].start, 20))
          /\ records[j].fields.mosfet_temp
                = KelvinTenthsToCelsius(StreamWord(records[j].start, 25))

\* C21 as amended: ambient_temp is taken from word 24, the last word but one,
\* and mosfet_temp from the last word, word 25; the words 20..23 are not used
CellLayout ==
    \A j \in 1..Len(records) :
       records[j].kind = "CellInfo"
       => /\ CellsOf(records[j])
          /\ records[j].fields.ambient_temp
                = KelvinTenthsToCelsius(StreamWord(records[j].start, 24))
          /\ records[j].fields.mosfet_temp
                = KelvinTenthsToCelsius(StreamWord(records[j].start, 25))

\* the cell frame with 11 in word 20 and 2975 in word 24 was decoded with an
\* ambient temperature of 24.35 and a mosfet temperature of 25.85 degrees
CellLayoutWitness ==
    /\ Drained
    /\ \E j \in 1..Len(records) :
          /\ records[j].kind = "CellInfo"
          /\ StreamWord(records[j].start, 20) = 11
          /\ StreamWord(records[j].start, 24) = 2975
          /\ records[j].fields.ambient_temp = 2435
          /\ records[j].fields.mosfet_temp = 2585
          /\ records[j].fields.cell_voltages[16] = 3316
          /\ records[j].fields.cell_temps[1] = 2495


(***************************************************************************)
(* The main frames: word 0 (pack voltage) and word 1 (current) of a valid  *)
(* frame (4, 36) drawn from the values below, the other words as in        *)
(* MainWords.  The current words are the powers of two, their neighbours   *)
(* below, their two's complements and some round values on both sides of   *)
(* the sign; they include products with the voltage words that are an      *)
(* exact half.                                                             *)
(***************************************************************************)
CurrentWords ==
    {0, 50, 200, 5000, 60536, 65336, 65486}
    \cup PowersOfTwo
    \cup {p - 1 : p \in PowersOfTwo}
    \cup {65536 - p : p \in PowersOfTwo}

VoltageWords == {0, 1, 3, 109, 2500, 5000, 65535}

MainPayload(w0, w1) ==
    WordBytes([w \in 1..Len(MainWords) |->
                  IF w = 1 THEN w0 ELSE IF w = 2 THEN w1 ELSE MainWords[w]])

MainScenarios ==
    {<<Part("frame", Frame(1, FcInput, MainPayload(w0, w1)))>> :
        w0 \in VoltageWords, w1 \in CurrentWords}
    \cup {<<Part("noise", <<9>>), Part("frame", Frame(1, FcInput, MainPayload(2500, 65336)))>>}

InitMain ==
    /\ \E sc \in MainScenarios :
          /\ stream = Flatten(sc)
          /\ layout = Layout(sc)
    /\ pos = 0
    /\ data = <<>>
    /\ modbusdata = <<>>
    /\ pc = "host"
    /\ trashdata = FALSE
    /\ trashdataf = TrashInit
    /\ batts_declared_set = {}
    /\ records = <<>>
    /\ validated = <<>>
    /\ trashed = <<>>
    /\ trashruns = 0
    /\ consumed = 0
    /\ raised = FALSE
    /\ lastCall = "none"
    /\ split = FALSE
    /\ InitSystem

SpecMain == InitMain /\ [][Next]_vars

(***************************************************************************)
(* C22  Signed current decode.                                             *)
(***************************************************************************)
Bit15(w) == (w \div 32768) % 2

\* C22: the raw current of every MainInfo record is word 1 of its frame when
\* the word is at most 32767 and the word less 65536 when it is above; it
\* lies in -32768..32767 and is negative exactly when bit 15 of the word is
\* set.
SignedCurrent ==
    \A i \in 1..Len(records) :
        records[i].kind = "MainInfo" =>
            LET w == StreamWord(records[i].start, 1)
                c == records[i].fields.current
            IN  /\ (w <= 32767 => c = w)
                /\ (w > 32767 => c = w - 65536)
                /\ c \in -32768..32767
                /\ (c < 0 <=> Bit15(w) = 1)

\* 0xFF38 has been decoded as -200, the largest positive word as itself
SignedCurrentWitness ==
    /\ Drained
    /\ \E i \in 1..Len(records) :
          /\ records[i].kind = "MainInfo"
          /\ StreamWord(records[i].start, 1) = 65336
          /\ records[i].fields.current = -200

(***************************************************************************)
(* C23  Power sign flip.                                                   *)
(***************************************************************************)
Abs(n) == IF n < 0 THEN -n ELSE n

\* C23: the power of every MainInfo record is an integer nearest to
\* -(signed16(word 1) * word 0) / 10000, so it is not negative when the
\* decoded current is not positive and not positive when the current is not
\* negative.
PowerSignFlip ==
    \A i \in 1..Len(records) :
        records[i].kind = "MainInfo" =>
            LET w0 == StreamWord(records[i].start, 0)
                c == TwosComplement(StreamWord(records[i].start, 1))
                power == records[i].fields.power
            IN  /\ 2 * Abs((10000 * power) + (c * w0)) <= 10000
                /\ (c <= 0 => power >= 0)
                /\ (c >= 0 => power <= 0)
                /\ (records[i].fields.current <= 0 => power >= 0)
                /\ (records[i].fields.current >= 0 => power <= 0)

\* 25.00 V and -2.00 A have given 50 W
PowerSignFlipWitness ==
    /\ Drained
    /\ \E i \in 1..Len(records) :
          /\ records[i].kind = "MainInfo"
          /\ StreamWord(records[i].start, 0) = 2500
          /\ StreamWord(records[i].start, 1) = 65336
          /\ records[i].fields.power = 50


(***************************************************************************)
(* C24  Balancing decode.                                                  *)
(***************************************************************************)
\* byte i of the payload of the frame at stream offset start
StreamByte(start, i) == stream[start + 4 + i]

\* the bit positions, numbered from 1, set in the bitmap of the frame
BalancingSet(start) ==
    {n \in 1..16 :
        (((StreamByte(start, 7) * 256) + StreamByte(start, 6)) \div (2 ^ (n - 1))) % 2 = 1}

\* C24: in every AlarmStatus record balancing_count is the number of set bits
\* of the 16-bit bitmap of bytes 6..7, balancing_cells lists the positions of
\* the set bits, numbered 1..16, in ascending order, and is as long as
\* balancing_count says; bitmap 0 gives 0 and the empty list.
BalancingDecode ==
    \A i \in 1..Len(records) :
        records[i].kind = "AlarmStatus" =>
            LET f == records[i].fields
                cells == f.balancing_cells
            IN  /\ f.balancing_count = Cardinality(BalancingSet(records[i].start))
                /\ {cells[k] : k \in 1..Len(cells)} = BalancingSet(records[i].start)
                /\ \A k \in 1..(Len(cells) - 1) : cells[k] < cells[k + 1]
                /\ Len(cells) = f.balancing_count
                /\ (BalancingSet(records[i].start) = {} =>
                       f.balancing_count = 0 /\ cells = <<>>)

\* bitmap 0x0155 has been decoded as five cells, 1, 3, 5, 7 and 9
BalancingDecodeWitness ==
    /\ Drained
    /\ \E i \in 1..Len(records) :
          /\ records[i].kind = "AlarmStatus"
          /\ StreamByte(records[i].start, 6) = 85
          /\ StreamByte(records[i].start, 7) = 1
          /\ records[i].fields.balancing_count = 5
          /\ records[i].fields.balancing_cells = <<1, 3, 5, 7, 9>>


(***************************************************************************)
(* C25  Every pass terminates.  The loop of _decode_modbus does nothing    *)
(* but make attempts, so it returns if the attempts that do not return     *)
(* are bounded in number and the last of them is followed by the return.   *)
(***************************************************************************)
\* the offset in the stream of the first byte of the buffer the running pass
\* was given
PassStart == consumed - (Len(data) - Len(modbusdata))

\* the attempts of the running pass that did not end it
PassAttempts ==
    Cardinality({i \in 1..Len(validated) : validated[i].start >= PassStart})
    + Cardinality({j \in 1..Len(trashed) : trashed[j] >= PassStart})

\* C25: an attempt that does not end the pass shortens the buffer, by one
\* byte when it fails and by 5 + byteCount bytes when it validates a frame; a
\* pass over N bytes has made at most N such attempts; an attempt on fewer
\* than three bytes ends the pass, and no attempt ends it otherwise than by
\* the return for more data.
PassTerminates ==
    /\ [][(pc = "scan" /\ pc' # "host")
            => \/ /\ trashed' # trashed /\ validated' = validated
                  /\ Len(modbusdata) - Len(modbusdata') = 1
               \/ /\ validated' # validated /\ trashed' = trashed
                  /\ Len(modbusdata) - Len(modbusdata') = 5 + Rd(modbusdata, 2)]_vars
    /\ [](pc = "scan" => PassAttempts <= Len(data) - Len(modbusdata))
    /\ [](pc = "scan" => PassAttempts <= Len(data))
    /\ [](pc = "scan" /\ Len(modbusdata) <= HeaderLen
            => Attempt(modbusdata, 0).needMoreData)
    /\ [][pc = "scan" => pc' \in {"scan", "host"}]_vars

\* a pass has returned after attempts of both kinds
PassTerminatesWitness ==
    /\ AfterIdle
    /\ validated # <<>>
    /\ Len(trashed) >= 2
    /\ data # <<>>


(***************************************************************************)
(* The longest candidates: a header that announces 255 bytes, function     *)
(* code 1 or 4, and 257 bytes behind it that are no frame, so that the     *)
(* buffer holds the header and 256 bytes before the frame is all there.    *)
(* SpecBuffer feeds the decoder these streams and those of Spec.           *)
(***************************************************************************)
ScenLong ==
    {<<Part("long", <<9, fc, 255>> \o [i \in 1..257 |-> 9])>> : fc \in {FcCoils, FcInput}}

InitBuffer ==
    /\ \E sc \in Scenarios \cup ScenLong :
          /\ stream = Flatten(sc)
          /\ layout = Layout(sc)
    /\ pos = 0
    /\ data = <<>>
    /\ modbusdata = <<>>
    /\ pc = "host"
    /\ trashdata = FALSE
    /\ trashdataf = TrashInit
    /\ batts_declared_set = {}
    /\ records = <<>>
    /\ validated = <<>>
    /\ trashed = <<>>
    /\ trashruns = 0
    /\ consumed = 0
    /\ raised = FALSE
    /\ lastCall = "none"
    /\ split = FALSE
    /\ InitSystem

SpecBuffer == InitBuffer /\ [][Next]_vars

(***************************************************************************)
(* C26  What a pass leaves in the buffer.                                  *)
(***************************************************************************)
\* C26: after every idle call the buffer is an incomplete candidate at
\* offset 0, fewer than 3 bytes or a header with function code 1 or 4 and
\* fewer than 7 or fewer than 5 + byteCount bytes, and so never longer than
\* 259 bytes.
BufferAfterPass ==
    AfterIdle => IncompleteCandidate(data) /\ Len(data) <= 259

\* a pass has left the longest candidate there is, one byte short of its 260
BufferAfterPassWitness ==
    /\ AfterIdle
    /\ Len(data) = 259
    /\ data[3] = 255
    /\ records = <<>> /\ trashed = <<>>


(***************************************************************************)
(* C27  One-time registration.                                             *)
(***************************************************************************)
\* the validated frames that have a handler, and the units they came from
Handled == {i \in 1..Len(validated) :
               KindOf(validated[i].functionCode, validated[i].readByteCount) # "none"}

HandledUnits == {validated[i].unit : i \in Handled}

\* the stream offset of the first handled frame of unit u
FirstFrameOf(u) ==
    CHOOSE o \in {validated[i].start : i \in {h \in Handled : validated[h].unit = u}} :
        \A i \in Handled : validated[i].unit = u => o <= validated[i].start

Autodiscoveries(u) ==
    {k \in 1..Len(mqttlog) : mqttlog[k].op = "autodiscovery" /\ mqttlog[k].unit = u}

Telemetries(u) ==
    {k \in 1..Len(mqttlog) : mqttlog[k].op = "telemetry" /\ mqttlog[k].unit = u}

\* C27: autodiscovery_battery is invoked once for every unit a MainInfo,
\* CellInfo or AlarmStatus frame has been decoded for and never for another,
\* on the first such frame of the unit and before any telemetry of that frame
\* is published; batts_declared_set is the set of these units at all times
\* and never loses a member.
OneTimeRegistration ==
    /\ [](batts_declared_set = HandledUnits)
    /\ [][batts_declared_set \subseteq batts_declared_set']_vars
    /\ [](\A k \in 1..Len(mqttlog) :
             mqttlog[k].op = "autodiscovery" => mqttlog[k].unit \in HandledUnits)
    /\ [](\A u \in HandledUnits :
             /\ Cardinality(Autodiscoveries(u)) = 1
             /\ \A k \in Autodiscoveries(u) :
                   /\ mqttlog[k].arg = FirstFrameOf(u)
                   /\ \A t \in Telemetries(u) : k < t
                   /\ \E t \in Telemetries(u) : mqttlog[t].arg = FirstFrameOf(u))

\* a unit has been registered by the first of its two frames and not again
\* by the second
OneTimeRegistrationWitness ==
    /\ Drained
    /\ \E u \in batts_declared_set :
          /\ Cardinality(Telemetries(u)) = 2
          /\ Cardinality(Autodiscoveries(u)) = 1
          /\ \E i, j \in 1..Len(records) :
                 /\ i < j
                 /\ records[i].unit = u /\ records[j].unit = u
                 /\ records[i].kind # records[j].kind


(***************************************************************************)
(* The health monitor (health_monitor.py).  Its thread runs                *)
(* _perform_health_check every check_interval seconds; what is kept of a   *)
(* check is _check_stale_batteries, which walks the aggregator's own       *)
(* dictionary (get_all_batteries returns self.batteries itself) while the  *)
(* main thread decodes.  The walk gives way to the main thread between     *)
(* two steps of its iterator; a dictionary iterator of Python raises       *)
(* RuntimeError at its next step once the dictionary has changed size,     *)
(* and nothing in the thread catches it.  mqttlog keeps, of what is        *)
(* published, the state topics and the stale count.                        *)
(***************************************************************************)
Tick ==
    /\ now < MaxTime
    /\ now' = now + 1
    /\ UNCHANGED <<decoderVars, packVars, farVars, mqttlog, batteries, hpc, hiter,
                   health_checks_performed, mqttVars>>

\* lines 140-150, the body of the loop for the item the iterator is at:
\* the locals after it
Visited(h) ==
    LET item == batteries[h.idx + 1]
    IN  [h EXCEPT !.idx = @ + 1,
                  !.stale_count = IF h.current_time - item.last_update > StaleTimeout
                                  THEN @ + 1 ELSE @]

\* and what has been published after it: "offline" for a stale battery that
\* is in declared_batteries, which is the decoder's own batts_declared_set
\* (seplos_bms_mqtt.py line 123)
VisitedLog(h) ==
    LET item == batteries[h.idx + 1]
    IN  IF /\ h.current_time - item.last_update > StaleTimeout
           /\ item.batt_id \in batts_declared_set
        THEN Publish(mqttlog, [op |-> "state", unit |-> item.batt_id, arg |-> "offline"])
        ELSE mqttlog

\* lines 65-76 and 131-150: a check begins, the iterator is made and takes
\* its first step; over an empty dictionary the check is over at once
\* (lines 152-161)
HealthBegin ==
    /\ hpc = "wait"
    /\ health_checks_performed < MaxChecks
    /\ health_checks_performed' = health_checks_performed + 1
    /\ LET h == [used |-> Len(batteries), idx |-> 0, current_time |-> now,
                 stale_count |-> 0]
       IN  IF batteries = <<>>
           THEN /\ hiter' = h
                /\ mqttlog' = Publish(mqttlog, [op |-> "stale_batteries", unit |-> 0,
                                                arg |-> 0])
                /\ hpc' = "wait"
           ELSE /\ hiter' = Visited(h)
                /\ mqttlog' = VisitedLog(h)
                /\ hpc' = "iterate"
    /\ UNCHANGED <<decoderVars, packVars, farVars, batteries, now, mqttVars>>

\* lines 140-150: the next item, with the dictionary the size it had
HealthNext ==
    /\ hpc = "iterate"
    /\ Len(batteries) = hiter.used
    /\ hiter.idx < Len(batteries)
    /\ hiter' = Visited(hiter)
    /\ mqttlog' = VisitedLog(hiter)
    /\ UNCHANGED <<decoderVars, packVars, farVars, batteries, now, hpc, health_checks_performed, mqttVars>>

\* line 140: the next step of the iterator finds the dictionary grown and
\* raises RuntimeError, which ends the thread
HealthRaise ==
    /\ hpc = "iterate"
    /\ Len(batteries) # hiter.used
    /\ hpc' = "dead"
    /\ UNCHANGED <<decoderVars, packVars, farVars, mqttlog, batteries, now, hiter,
                   health_checks_performed, mqttVars>>

\* lines 152-161, 67-68: the iterator is exhausted, the counts are published
\* and the thread waits for the next check
HealthDone ==
    /\ hpc = "iterate"
    /\ Len(batteries) = hiter.used
    /\ hiter.idx >= Len(batteries)
    /\ mqttlog' = Publish(mqttlog, [op |-> "stale_batteries", unit |-> 0,
                                    arg |-> hiter.stale_count])
    /\ hpc' = "wait"
    /\ UNCHANGED <<decoderVars, packVars, farVars, batteries, now, hiter, health_checks_performed, mqttVars>>

HealthStep == HealthBegin \/ HealthNext \/ HealthRaise \/ HealthDone

\* the bus: two batteries answering in turn, one battery answering twice,
\* and a byte of noise ahead of a frame
HealthScenarios ==
    {<<Part("frame", FMain), Part("frame", FAlarm)>>,
     <<Part("frame", FAlarm), Part("frame", FCell)>>,
     <<Part("noise", <<9>>), Part("frame", FAlarm)>>}

InitHealth ==
    /\ \E sc \in HealthScenarios :
          /\ stream = Flatten(sc)
          /\ layout = Layout(sc)
    /\ pos = 0
    /\ data = <<>>
    /\ modbusdata = <<>>
    /\ pc = "host"
    /\ trashdata = FALSE
    /\ trashdataf = TrashInit
    /\ batts_declared_set = {}
    /\ records = <<>>
    /\ validated = <<>>
    /\ trashed = <<>>
    /\ trashruns = 0
    /\ consumed = 0
    /\ raised = FALSE
    /\ lastCall = "none"
    /\ split = FALSE
    /\ InitSystem

NextHealth ==
    \/ \E k \in 1..Remaining : Feed(k)
    \/ IdleSkip
    \/ IdleStart
    \/ ScanNeedMoreData
    \/ ScanFrameValid
    \/ ScanDesync
    \/ Tick
    \/ HealthBegin
    \/ HealthNext
    \/ HealthRaise
    \/ HealthDone

SpecHealth == InitHealth /\ [][NextHealth]_vars


(***************************************************************************)
(* C28  Offline recovery.  The main loop reads and calls the decoder        *)
(* without end, every pass of the decoder returns, the clock goes on and   *)
(* the health thread, while it lives, is scheduled: SpecHealthLive says    *)
(* so.                                                                     *)
(***************************************************************************)
HostStep == (\E k \in 1..Remaining : Feed(k)) \/ IdleSkip \/ IdleStart

SpecHealthLive ==
    /\ InitHealth /\ [][NextHealth]_vars
    /\ WF_vars(HostStep)
    /\ []<>(pc # "scan")
    /\ WF_vars(Tick)
    /\ WF_vars(HealthStep)

Units == {1, 2, 3}

States(u) == {k \in 1..Len(mqttlog) : mqttlog[k].op = "state" /\ mqttlog[k].unit = u}

\* the state topic of unit u holds "offline"
MarkedOffline(u) ==
    \E k \in States(u) : mqttlog[k].arg = "offline" /\ \A j \in States(u) : j <= k

\* and a frame of the unit has been decoded since
DeliveringAgain(u) ==
    \E k \in States(u) :
        /\ mqttlog[k].arg = "offline" /\ \A j \in States(u) : j <= k
        /\ \E t \in Telemetries(u) : t > k

StableIteration ==
    /\ hpc = "iterate" => Len(batteries) = hiter.used
    /\ hpc # "dead"


(***************************************************************************)
(* The MQTT manager (mqtt_manager.py) by itself: publish_if_changed called *)
(* with a topic and a value, clear_cached_values, and the two callbacks    *)
(* that set self.connected.  self.last_values is a function whose domain   *)
(* is the topics cached.  Of a publish, mqttlog keeps what went out.       *)
(***************************************************************************)
Topics == {"soc", "power"}

Values == {0, 1}

\* a bug: the value published is not remembered
PublishIfChangedUncached(topic, value) ==
    /\ Len(calls) < MaxCalls
    /\ calls' = Append(calls, [topic |-> topic, value |-> value])
    /\ IF publish_mode = "all" \/ topic \notin DOMAIN last_values
          \/ last_values[topic] # value
       THEN /\ messages_published' = messages_published + 1
            /\ handed' = Append(handed, [topic |-> topic, value |-> value])
            /\ mqttlog' = Publish(mqttlog, [op |-> "value", unit |-> topic, arg |-> value])
            /\ UNCHANGED <<last_values, messages_skipped>>
       ELSE /\ messages_skipped' = messages_skipped + 1
            /\ UNCHANGED <<last_values, messages_published, handed, mqttlog>>
    /\ UNCHANGED <<decoderVars, packVars, farVars, batteries, healthVars, publish_mode, connected>>

\* lines 183-198
PublishIfChanged(topic, value) ==
    /\ Len(calls) < MaxCalls
    /\ calls' = Append(calls, [topic |-> topic, value |-> value])
    /\ IF publish_mode = "all"
       THEN /\ messages_published' = messages_published + 1
            /\ handed' = Append(handed, [topic |-> topic, value |-> value])
            /\ mqttlog' = Publish(mqttlog, [op |-> "value", unit |-> topic, arg |-> value])
            /\ UNCHANGED <<last_values, messages_skipped>>
       ELSE IF topic \notin DOMAIN last_values \/ last_values[topic] # value
       THEN /\ last_values' = [t \in DOMAIN last_values \cup {topic} |->
                                  IF t = topic THEN value ELSE last_values[t]]
            /\ messages_published' = messages_published + 1
            /\ handed' = Append(handed, [topic |-> topic, value |-> value])
            /\ mqttlog' = Publish(mqttlog, [op |-> "value", unit |-> topic, arg |-> value])
            /\ UNCHANGED messages_skipped
       ELSE /\ messages_skipped' = messages_skipped + 1
            /\ UNCHANGED <<last_values, messages_published, handed, mqttlog>>
    /\ UNCHANGED <<decoderVars, packVars, farVars, batteries, healthVars, publish_mode, connected>>

\* lines 217-221
ClearCachedValues ==
    /\ last_values' = <<>>
    /\ UNCHANGED <<decoderVars, packVars, farVars, mqttlog, batteries, healthVars, publish_mode, connected,
                   messages_published, messages_skipped, calls, handed>>

\* lines 69-74, reason_code 0
OnConnect ==
    /\ ~connected
    /\ connected' = TRUE
    /\ UNCHANGED <<decoderVars, packVars, farVars, mqttlog, batteries, healthVars, publish_mode, last_values,
                   messages_published, messages_skipped, calls, handed>>

\* lines 82-86
OnDisconnect ==
    /\ connected
    /\ connected' = FALSE
    /\ UNCHANGED <<decoderVars, packVars, farVars, mqttlog, batteries, healthVars, publish_mode, last_values,
                   messages_published, messages_skipped, calls, handed>>

InitMqtt ==
    /\ stream = <<>>
    /\ layout = <<>>
    /\ pos = 0
    /\ data = <<>>
    /\ modbusdata = <<>>
    /\ pc = "host"
    /\ trashdata = FALSE
    /\ trashdataf = TrashInit
    /\ batts_declared_set = {}
    /\ records = <<>>
    /\ validated = <<>>
    /\ trashed = <<>>
    /\ trashruns = 0
    /\ consumed = 0
    /\ raised = FALSE
    /\ lastCall = "none"
    /\ split = FALSE
    /\ mqttlog = <<>>
    /\ batteries = <<>>
    /\ now = 0
    /\ hpc = "wait"
    /\ hiter = [used |-> 0, idx |-> 0, current_time |-> 0, stale_count |-> 0]
    /\ health_checks_performed = 0
    /\ publish_mode \in {"all", "changed"}
    /\ connected = TRUE
    /\ last_values = <<>>
    /\ messages_published = 0
    /\ messages_skipped = 0
    /\ calls = <<>>
    /\ handed = <<>>
    /\ InitPack
    /\ InitFar

NextMqtt ==
    \/ \E topic \in Topics, value \in Values : PublishIfChanged(topic, value)
    \/ ClearCachedValues
    \/ OnConnect
    \/ OnDisconnect

SpecMqtt == InitMqtt /\ [][NextMqtt]_vars

(***************************************************************************)
(* C30  Publish on change.                                                 *)
(***************************************************************************)
\* the step is a call of publish_if_changed
IsCall == Len(calls') = Len(calls) + 1

\* C30: in mode "changed" a call hands its value to publish exactly when the
\* topic has no cached value or a different one, and the cache then holds the
\* value of the call; a repeated value is skipped.  In both modes a call adds
\* one to exactly one of messages_published and messages_skipped.
PublishOnChange ==
    [][IsCall =>
        LET c == calls'[Len(calls')]
            fresh == c.topic \notin DOMAIN last_values \/ last_values[c.topic] # c.value
        IN  /\ publish_mode = "changed" =>
                  /\ fresh => handed' = Append(handed, c)
                  /\ ~fresh => handed' = handed
                  /\ c.topic \in DOMAIN last_values'
                  /\ last_values'[c.topic] = c.value
                  /\ fresh <=> messages_published' = messages_published + 1
                  /\ ~fresh <=> messages_skipped' = messages_skipped + 1
            /\ \/ /\ messages_published' = messages_published + 1
                  /\ messages_skipped' = messages_skipped
               \/ /\ messages_skipped' = messages_skipped + 1
                  /\ messages_published' = messages_published]_vars

\* in mode "changed" a value has been published, repeated and skipped, and
\* then changed and published
PublishOnChangeWitness ==
    /\ publish_mode = "changed"
    /\ calls = <<[topic |-> "soc", value |-> 0], [topic |-> "soc", value |-> 0],
                 [topic |-> "soc", value |-> 1]>>
    /\ handed = <<[topic |-> "soc", value |-> 0], [topic |-> "soc", value |-> 1]>>
    /\ messages_published = 2
    /\ messages_skipped = 1
    /\ last_values["soc"] = 1


(***************************************************************************)
(* C31  No lost update in mode "changed".                                  *)
(***************************************************************************)
\* what went out to the broker for a topic
Delivered(topic) ==
    {mqttlog[k].arg : k \in {j \in 1..Len(mqttlog) :
                                mqttlog[j].op = "value" /\ mqttlog[j].unit = topic}}

\* C31: the cached last value of a topic is a value that went out to the
\* broker for that topic, so a value whose publish failed while disconnected
\* is not skipped as unchanged when it is given again.
NoLostUpdate ==
    \A topic \in DOMAIN last_values : last_values[topic] \in Delivered(topic)

(***************************************************************************)
(* The PackAggregator on its own: batteries report, time passes, and       *)
(* calculate_and_publish is called.                                        *)
(***************************************************************************)
MaxPackTime == 3
MaxPackUnits == 2
MaxPackCalls == 3

\* the clock readings looked at: the first seconds, and those around the
\* moment a battery that reported at the start stops counting as online
PackTimes ==
    (0..MaxPackTime) \cup ((OnlineTimeout - 1)..(OnlineTimeout + MaxPackTime))

\* the decoder with nothing read and nothing to read
DecoderIdle ==
    /\ stream = <<>>
    /\ layout = <<>>
    /\ pos = 0
    /\ data = <<>>
    /\ modbusdata = <<>>
    /\ pc = "host"
    /\ trashdata = FALSE
    /\ trashdataf = TrashInit
    /\ batts_declared_set = {}
    /\ records = <<>>
    /\ validated = <<>>
    /\ trashed = <<>>
    /\ trashruns = 0
    /\ consumed = 0
    /\ raised = FALSE
    /\ lastCall = "none"
    /\ split = FALSE

InitPackAggregator ==
    /\ DecoderIdle
    /\ InitSystem

\* time.time() moves on
PackElapse ==
    /\ \E t \in PackTimes : t > now /\ now' = t
    /\ UNCHANGED <<decoderVars, mqttlog, batteries, hpc, hiter,
                   health_checks_performed, mqttVars, packVars, farVars>>

\* update_battery_data(batt_id, ...), lines 31-36
UpdateBatteryData(batt_id) ==
    /\ batteries' = StoreBattery(batteries, batt_id, now)
    /\ UNCHANGED <<decoderVars, mqttlog, healthVars, mqttVars, packVars, farVars>>

\* calculate_and_publish(), lines 143-325
CalculateNow ==
    /\ pack_calls < MaxPackCalls
    /\ CalculateAndPublish(mqttlog, batteries, now)
    /\ UNCHANGED <<decoderVars, batteries, healthVars, mqttVars, farVars>>

NextPackAggregator ==
    \/ PackElapse
    \/ \E batt_id \in 1..MaxPackUnits : UpdateBatteryData(batt_id)
    \/ CalculateNow

SpecPackAggregator == InitPackAggregator /\ [][NextPackAggregator]_vars

\* the times at which aggregates were published, in order
PackPublications ==
    SelectSeq(mqttlog, LAMBDA e : e.op = "pack")

PackAutodiscoveries ==
    SelectSeq(mqttlog, LAMBDA e : e.op = "pack_autodiscovery")

\* no battery of the table was updated within the last OnlineTimeout seconds
NoneRecent ==
    \A i \in 1..Len(batteries) : now - batteries[i].last_update >= OnlineTimeout

\* C32: any two publications of aggregates lie at least publish_interval
\* apart; a call of calculate_and_publish made sooner than that after the
\* last publication, or finding no battery updated within the last 60
\* seconds, publishes nothing and leaves last_publish_time and pack_declared
\* as they are; and pack autodiscovery is sent at most once.
PackRateLimit ==
    /\ [](\A i, j \in 1..Len(PackPublications) :
             i < j => PackPublications[j].arg - PackPublications[i].arg >= PublishInterval)
    /\ [][(/\ pack_calls' = pack_calls + 1
           /\ \/ now - last_publish_time < PublishInterval
              \/ NoneRecent)
          => UNCHANGED <<mqttlog, last_publish_time, pack_declared>>]_vars
    /\ [](Len(PackAutodiscoveries) <= 1)

\* two publications, and a call besides them that published nothing
PackRateLimitWitness ==
    /\ Len(PackPublications) = 2
    /\ pack_calls = 3
    /\ Len(PackAutodiscoveries) = 1
    /\ pack_declared

(***************************************************************************)
(* ModbusConnection (fronius-modbus-mqtt, fronius/modbus_client.py).       *)
(* read_registers runs as a whole under self.lock (lines 70-113).  What    *)
(* the device and the network do at each pass of its loop is an outcome:   *)
(*   "refused"    the connection is found closed and client.connect()      *)
(*                returns False (lines 81-90)                              *)
(*   "ok"         the response is no error (lines 98-101)                  *)
(*   "error"      the response is an error (lines 102-104)                 *)
(*   "exception"  the read raises (lines 106-110)                          *)
(* A call's result is the number of the pass whose response it returns,    *)
(* 0 for None.                                                             *)
(***************************************************************************)
RetryAttempts == 2
MaxReads == 3
MaxUnits == 2

Outcomes == {"refused", "ok", "error", "exception"}

\* lines 72-76: the open connection is closed first
ClosesFirst(last, unit_id, client, conn) ==
    last # 0 /\ last # unit_id /\ client /\ conn

\* lines 78-110, from pass i on
RECURSIVE RunAttempts(_, _, _, _)
RunAttempts(i, conn, events, outcomes) ==
    IF i > RetryAttempts
    THEN [connected |-> conn, events |-> events, result |-> 0]
    ELSE IF outcomes[i] = "refused"
    THEN RunAttempts(i + 1, FALSE, Append(events, "connect"), outcomes)
    ELSE LET opened == IF conn THEN events ELSE Append(events, "connect")
         IN  IF outcomes[i] = "ok"
             THEN [connected |-> TRUE, events |-> Append(opened, "read"), result |-> i]
             ELSE RunAttempts(i + 1, outcomes[i] = "error",
                              Append(opened, "read"), outcomes)

\* the whole call
RunCall(last, unit_id, client, conn, outcomes) ==
    IF ClosesFirst(last, unit_id, client, conn)
    THEN RunAttempts(1, FALSE, <<"close">>, outcomes)
    ELSE RunAttempts(1, conn, <<>>, outcomes)

\* a bug: the unit is remembered whether the read went well or not
UnitAfterAnyRead(last, unit_id, run) == unit_id

\* line 100
UnitAfter(last, unit_id, run) == IF run.result # 0 THEN unit_id ELSE last

\* connect(), lines 44-58
MbConnect(ok) ==
    /\ ~mb_client
    /\ mb_client' = TRUE
    /\ mb_connected' = ok
    /\ UNCHANGED <<successful_reads, failed_reads, last_unit_id, mb_call>>
    /\ UNCHANGED <<nearVars, influxVars, reconnVars, bufferVars>>

\* disconnect(), lines 60-66
MbDisconnect ==
    /\ mb_connected
    /\ mb_connected' = FALSE
    /\ UNCHANGED <<mb_client, successful_reads, failed_reads, last_unit_id, mb_call>>
    /\ UNCHANGED <<nearVars, influxVars, reconnVars, bufferVars>>

\* DevicePoller forces a reconnect at the next read (lines 219, 251, 416)
MbForceReset ==
    /\ mb_connected
    /\ mb_call.n > 0
    /\ mb_connected' = FALSE
    /\ UNCHANGED <<mb_client, successful_reads, failed_reads, last_unit_id, mb_call>>
    /\ UNCHANGED <<nearVars, influxVars, reconnVars, bufferVars>>

\* read_registers(address, count, unit_id), lines 68-113
ReadRegisters(unit_id, outcomes) ==
    /\ mb_call.n < MaxReads
    /\ LET run == RunCall(last_unit_id, unit_id, mb_client, mb_connected, outcomes)
       IN  /\ mb_client' = (mb_client \/ "connect" \in {run.events[k] : k \in 1..Len(run.events)})
           /\ mb_connected' = run.connected
           /\ successful_reads' = IF run.result # 0 THEN successful_reads + 1
                                  ELSE successful_reads
           /\ failed_reads' = IF run.result # 0 THEN failed_reads ELSE failed_reads + 1
           /\ last_unit_id' = UnitAfter(last_unit_id, unit_id, run)
           /\ mb_call' = [n |-> mb_call.n + 1, unit |-> unit_id, outcomes |-> outcomes,
                          events |-> run.events, result |-> run.result]
    /\ UNCHANGED <<nearVars, influxVars, reconnVars, bufferVars>>

InitModbusConnection ==
    /\ DecoderIdle
    /\ InitSystem

NextModbusConnection ==
    \/ \E ok \in BOOLEAN : MbConnect(ok)
    \/ MbDisconnect
    \/ MbForceReset
    \/ \E unit_id \in 1..MaxUnits, outcomes \in [1..RetryAttempts -> Outcomes] :
          ReadRegisters(unit_id, outcomes)

SpecModbusConnection == InitModbusConnection /\ [][NextModbusConnection]_vars

\* the step is a read_registers call
IsRead == mb_call'.n = mb_call.n + 1

\* how many reads the last call made
ReadsMade == Cardinality({k \in 1..Len(mb_call.events) : mb_call.events[k] = "read"})

\* the first pass of the last call whose response was no error, 0 if none
FirstGood ==
    LET good == {i \in 1..Len(mb_call.outcomes) : mb_call.outcomes[i] = "ok"}
    IN  IF good = {} THEN 0 ELSE CHOOSE i \in good : \A j \in good : i <= j

\* what C34 says of every call but its last clause
ReadOutcome ==
    /\ IsRead =>
          /\ ReadsMade' <= RetryAttempts
          /\ mb_call'.result = FirstGood'
          /\ \/ successful_reads' = successful_reads + 1 /\ failed_reads' = failed_reads
             \/ successful_reads' = successful_reads /\ failed_reads' = failed_reads + 1
    /\ last_unit_id' # last_unit_id => IsRead /\ mb_call'.result # 0

\* C34: every read_registers call makes at most retry_attempts reads, returns
\* the registers of the first response that is no error, or None when there
\* is none, and adds one to exactly one of successful_reads and failed_reads;
\* last_unit_id changes only on a successful read; and a call whose unit id
\* differs from a last_unit_id that is not None closes the open connection
\* before its first attempt.
ReadRegistersContract ==
    [][/\ ReadOutcome
       /\ (IsRead /\ mb_connected /\ last_unit_id # 0 /\ last_unit_id # mb_call'.unit)
             => (Len(mb_call'.events) > 0 /\ mb_call'.events[1] = "close")]_vars

\* C34 as stated: None too is a last_unit_id that the unit id differs from
ReadRegistersContractAsStated ==
    [][/\ ReadOutcome
       /\ (IsRead /\ mb_connected /\ last_unit_id # mb_call'.unit)
             => (Len(mb_call'.events) > 0 /\ mb_call'.events[1] = "close")]_vars

\* a call for another unit than the last found the connection open, closed
\* it, met an error and then returned the registers of its second response
ReadRegistersContractWitness ==
    /\ mb_call.events = <<"close", "connect", "read", "read">>
    /\ mb_call.result = 2
    /\ last_unit_id = mb_call.unit
    /\ successful_reads = 2
    /\ failed_reads = 1

(***************************************************************************)
(* InfluxDBManager (seplos-bms-mqtt, seplos/influxdb_manager.py): the      *)
(* connection is lost when a write fails, and is_enabled, which every      *)
(* write begins with, calls _try_reconnect while it is lost.               *)
(***************************************************************************)
MaxInfluxTime == 1900
MaxReconnects == 1

\* how long a caller stays away: until the delay is over, or until the long
\* delay is over; a caller that does not stay away at all comes too soon
InfluxWaits == {reconnect_delay, MaxReconnectDelay + 1}

Min(a, b) == IF a < b THEN a ELSE b

\* a bug: the doubling has no limit
BackoffDelayUncapped(delay) == delay * 2

\* line 125
BackoffDelay(delay) == Min(delay * 2, MaxReconnectDelay)

\* time.time() moves on
InfluxElapse ==
    /\ last_try.at = now
    /\ \E d \in InfluxWaits : now + d <= MaxInfluxTime /\ now' = now + d
    /\ UNCHANGED <<decoderVars, mqttlog, batteries, hpc, hiter,
                   health_checks_performed, mqttVars, packVars, farVars>>

\* write_battery_data and write_pack_data, lines 220-223 and 278-281
InfluxWriteFails ==
    /\ influx_connected
    /\ influx_connected' = FALSE
    /\ UNCHANGED <<reconnect_attempts, reconnect_delay, last_reconnect_attempt,
                   reconnect_count, last_try>>
    /\ UNCHANGED <<nearVars, modbusVars, reconnVars, bufferVars>>

\* is_enabled (lines 128-132) calling _try_reconnect (lines 82-126);
\* up: _setup_client (lines 55-80) leaves self.connected True
TryReconnect(up) ==
    /\ ~influx_connected
    /\ up => reconnect_count < MaxReconnects
    /\ LET since == now - last_reconnect_attempt
           limit == reconnect_attempts >= MaxReconnectAttempts
           made == /\ ~(since < reconnect_delay)
                   /\ limit => since > MaxReconnectDelay
           attempts == IF limit THEN 0 ELSE reconnect_attempts
           delay == IF limit THEN InitialDelay ELSE reconnect_delay
       IN  /\ last_try' = [at |-> now, attempts |-> reconnect_attempts,
                           since |-> since, made |-> made]
           /\ IF ~made
              THEN UNCHANGED <<influx_connected, reconnect_attempts, reconnect_delay,
                               last_reconnect_attempt, reconnect_count>>
              ELSE /\ last_reconnect_attempt' = now
                   /\ reconnect_count' = IF up THEN reconnect_count + 1 ELSE reconnect_count
                   /\ influx_connected' = up
                   /\ reconnect_attempts' = IF up THEN 0 ELSE attempts + 1
                   /\ reconnect_delay' = IF up THEN InitialDelay ELSE BackoffDelay(delay)
    /\ UNCHANGED <<nearVars, modbusVars, reconnVars, bufferVars>>

InitInfluxManager ==
    /\ DecoderIdle
    /\ InitSystem

NextInfluxManager ==
    \/ InfluxElapse
    \/ InfluxWriteFails
    \/ \E up \in BOOLEAN : TryReconnect(up)

SpecInfluxManager == InitInfluxManager /\ [][NextInfluxManager]_vars

\* the step is a reconnect attempt
IsAttempt == last_reconnect_attempt' # last_reconnect_attempt

\* C33: reconnect_delay stays within 5..max_reconnect_delay and
\* reconnect_attempts within max_reconnect_attempts; an attempt is made no
\* sooner than reconnect_delay seconds after the one before; a failed attempt
\* doubles the delay (up to max_reconnect_delay, and from 5 when the attempt
\* limit had been reached) and a successful one sets it to 5; and a call made
\* at the attempt limit more than max_reconnect_delay seconds after the last
\* attempt makes an attempt.
ReconnectBackoff ==
    /\ [](/\ reconnect_delay \in InitialDelay..MaxReconnectDelay
          /\ reconnect_attempts \in 0..MaxReconnectAttempts)
    /\ [][IsAttempt =>
            /\ now - last_reconnect_attempt >= reconnect_delay
            /\ influx_connected' => reconnect_delay' = InitialDelay
            /\ ~influx_connected' =>
                  reconnect_delay' =
                     IF reconnect_attempts = MaxReconnectAttempts
                     THEN 2 * InitialDelay
                     ELSE Min(2 * reconnect_delay, MaxReconnectDelay)]_vars
    /\ []((/\ last_try.attempts = MaxReconnectAttempts
           /\ last_try.since > MaxReconnectDelay) => last_try.made)

\* the tenth attempt in a row has failed, the long delay has passed, and the
\* next call has made an attempt, which failed
ReconnectBackoffWitness ==
    /\ last_try.attempts = MaxReconnectAttempts
    /\ last_try.made
    /\ reconnect_attempts = 1
    /\ reconnect_delay = 2 * InitialDelay

(***************************************************************************)
(* The async MQTTClient (fronius-solar-api-mqtt, fronius_collector/        *)
(* mqtt_client.py).  Its coroutines run in one event loop and give way to  *)
(* each other only at an await, so each action is the code between two     *)
(* awaits.  A task made of _reconnect_loop() is at                         *)
(*   "new"      made by create_task, not yet run                           *)
(*   "sleep"    in asyncio.sleep (line 113)                                *)
(*   "connect"  in self._client.__aenter__() (line 77, from line 119)      *)
(*   "done"     returned, or ended by CancelledError                       *)
(* and cancel is whether cancel() was called on it.                        *)
(***************************************************************************)
MaxTasks == 4
MaxPublishing == 3

Pending(ts) == {i \in 1..Len(ts) : ts[i].at # "done"}

\* a bug: a task is made whether or not the last one is done
ScheduleUnguarded(ts, task, run) ==
    IF ~run THEN [tasks |-> ts, task |-> task]
    ELSE [tasks |-> Append(ts, [at |-> "new", cancel |-> FALSE]), task |-> Len(ts) + 1]

\* _schedule_reconnect, lines 97-105: the tasks and self._reconnect_task
\* after it
ScheduleReconnect(ts, task, run) ==
    IF ~run THEN [tasks |-> ts, task |-> task]
    ELSE IF task # 0 /\ ts[task].at # "done" THEN [tasks |-> ts, task |-> task]
    ELSE [tasks |-> Append(ts, [at |-> "new", cancel |-> FALSE]), task |-> Len(ts) + 1]

\* start(), lines 41-48, with the _connect() it awaits (lines 64-84); the
\* collector is started after it has returned
StartClient(ok) ==
    /\ lifecycle = "new"
    /\ lifecycle' = "started"
    /\ running' = TRUE
    /\ client_open' = TRUE
    /\ client_connected' = ok
    /\ LET s == ScheduleReconnect(tasks, reconnect_task, ~ok)
       IN  tasks' = s.tasks /\ reconnect_task' = s.task
    /\ UNCHANGED publishing
    /\ UNCHANGED <<nearVars, influxVars, modbusVars, bufferVars>>

\* publish(), lines 140-143: not connected
PublishUnconnected ==
    /\ lifecycle # "new"
    /\ ~client_connected \/ ~client_open
    /\ LET s == ScheduleReconnect(tasks, reconnect_task, running)
       IN  Len(s.tasks) <= MaxTasks /\ tasks' = s.tasks /\ reconnect_task' = s.task
    /\ UNCHANGED <<running, client_connected, client_open, lifecycle, publishing>>
    /\ UNCHANGED <<nearVars, influxVars, modbusVars, bufferVars>>

\* publish(), lines 140-168: connected, as far as self._client.publish
PublishSend ==
    /\ lifecycle # "new"
    /\ publishing < MaxPublishing
    /\ client_connected /\ client_open
    /\ publishing' = publishing + 1
    /\ UNCHANGED <<running, client_connected, client_open, reconnect_task, tasks,
                   lifecycle>>
    /\ UNCHANGED <<nearVars, influxVars, modbusVars, bufferVars>>

\* publish(), lines 170-173: self._client.publish has returned
PublishSent ==
    /\ publishing > 0
    /\ publishing' = publishing - 1
    /\ UNCHANGED <<running, client_connected, client_open, reconnect_task, tasks,
                   lifecycle>>
    /\ UNCHANGED <<nearVars, influxVars, modbusVars, bufferVars>>

\* publish(), lines 175-179: self._client.publish has raised MqttError
PublishMqttError ==
    /\ publishing > 0
    /\ publishing' = publishing - 1
    /\ client_connected' = FALSE
    /\ LET s == ScheduleReconnect(tasks, reconnect_task, running)
       IN  Len(s.tasks) <= MaxTasks /\ tasks' = s.tasks /\ reconnect_task' = s.task
    /\ UNCHANGED <<running, client_open, lifecycle>>
    /\ UNCHANGED <<nearVars, influxVars, modbusVars, bufferVars>>

\* the task i runs to its next await; a task that cancel() was called on gets
\* CancelledError there, which nothing in _reconnect_loop, _disconnect or
\* _connect catches
LoopCancelled(i) ==
    /\ tasks[i].at # "done" /\ tasks[i].cancel
    /\ tasks' = [tasks EXCEPT ![i].at = "done"]
    /\ UNCHANGED <<running, client_connected, client_open, reconnect_task, lifecycle,
                   publishing>>
    /\ UNCHANGED <<nearVars, influxVars, modbusVars, bufferVars>>

\* lines 109-113: the loop condition where the task begins
LoopBegin(i) ==
    /\ tasks[i].at = "new" /\ ~tasks[i].cancel
    /\ tasks' = [tasks EXCEPT ![i].at =
                    IF running /\ ~client_connected THEN "sleep" ELSE "done"]
    /\ UNCHANGED <<running, client_connected, client_open, reconnect_task, lifecycle,
                   publishing>>
    /\ UNCHANGED <<nearVars, influxVars, modbusVars, bufferVars>>

\* lines 113-119 and 64-77: the sleep is over; _disconnect, then _connect as
\* far as __aenter__
LoopWake(i) ==
    /\ tasks[i].at = "sleep" /\ ~tasks[i].cancel
    /\ IF ~running
       THEN /\ tasks' = [tasks EXCEPT ![i].at = "done"]
            /\ UNCHANGED <<client_connected, client_open>>
       ELSE /\ tasks' = [tasks EXCEPT ![i].at = "connect"]
            /\ client_connected' = FALSE
            /\ client_open' = TRUE
    /\ UNCHANGED <<running, reconnect_task, lifecycle, publishing>>
    /\ UNCHANGED <<nearVars, influxVars, modbusVars, bufferVars>>

\* lines 77-84 and 109: __aenter__ returns or raises; _schedule_reconnect is
\* called from inside the task; then the loop condition
LoopConnected(i, ok) ==
    /\ tasks[i].at = "connect" /\ ~tasks[i].cancel
    /\ client_connected' = ok
    /\ LET s == ScheduleReconnect(tasks, reconnect_task, running /\ ~ok)
       IN  /\ Len(s.tasks) <= MaxTasks
           /\ reconnect_task' = s.task
           /\ tasks' = [s.tasks EXCEPT ![i].at =
                           IF running /\ ~ok THEN "sleep" ELSE "done"]
    /\ UNCHANGED <<running, client_open, lifecycle, publishing>>
    /\ UNCHANGED <<nearVars, influxVars, modbusVars, bufferVars>>

\* stop(), lines 52-57: as far as awaiting the cancelled task
StopBegin ==
    /\ lifecycle = "started"
    /\ running' = FALSE
    /\ lifecycle' = "stopping"
    /\ tasks' = IF reconnect_task # 0 /\ tasks[reconnect_task].at # "done"
                THEN [tasks EXCEPT ![reconnect_task].cancel = TRUE]
                ELSE tasks
    /\ UNCHANGED <<client_connected, client_open, reconnect_task, publishing>>
    /\ UNCHANGED <<nearVars, influxVars, modbusVars, bufferVars>>

\* stop(), lines 57-62: the awaited task has ended; _disconnect (lines 86-95)
StopEnd ==
    /\ lifecycle = "stopping"
    /\ reconnect_task # 0 => tasks[reconnect_task].at = "done"
    /\ lifecycle' = "stopped"
    /\ client_open' = FALSE
    /\ client_connected' = IF client_open THEN FALSE ELSE client_connected
    /\ UNCHANGED <<running, reconnect_task, tasks, publishing>>
    /\ UNCHANGED <<nearVars, influxVars, modbusVars, bufferVars>>

InitMQTTClientLoop ==
    /\ DecoderIdle
    /\ InitSystem

NextMQTTClientLoop ==
    \/ \E ok \in BOOLEAN : StartClient(ok)
    \/ PublishUnconnected
    \/ PublishSend
    \/ PublishSent
    \/ PublishMqttError
    \/ \E i \in 1..Len(tasks) : LoopCancelled(i)
    \/ \E i \in 1..Len(tasks) : LoopBegin(i)
    \/ \E i \in 1..Len(tasks) : LoopWake(i)
    \/ \E i \in 1..Len(tasks), ok \in BOOLEAN : LoopConnected(i, ok)
    \/ StopBegin
    \/ StopEnd

SpecMQTTClientLoop == InitMQTTClientLoop /\ [][NextMQTTClientLoop]_vars

\* C35: at most one task made of _reconnect_loop is pending at any time,
\* whoever calls _schedule_reconnect; and once stop() has completed no such
\* task is pending and none is made.
SingleReconnectTask ==
    /\ [](Cardinality(Pending(tasks)) <= 1)
    /\ [](lifecycle = "stopped" => Pending(tasks) = {})
    /\ [][lifecycle = "stopped" => tasks' = tasks]_vars

\* stop() has completed after a second task had been made, the first having
\* ended, and after a publish that found the client stopped
SingleReconnectTaskWitness ==
    /\ lifecycle = "stopped"
    /\ Len(tasks) >= 2
    /\ \E i \in 1..Len(tasks) : tasks[i].cancel

(***************************************************************************)
(* The InfluxClient buffer (fronius-solar-api-mqtt, fronius_collector/     *)
(* influxdb_client.py).  The coroutines run in one event loop; no await    *)
(* stands inside an "async with self._lock" block, so the lock is never    *)
(* waited for, and the only await at which write and _flush_buffer give    *)
(* way is the run_in_executor of line 231.                                 *)
(***************************************************************************)
BatchSize == 2
MaxPoints == 4
MaxFlushing == 2

Range(q) == {q[k] : k \in 1..Len(q)}

Remove(q, i) == [k \in 1..(Len(q) - 1) |-> IF k < i THEN q[k] ELSE q[k + 1]]

\* line 247
PutBack(taken, buffer) == taken \o buffer

\* _flush_buffer, lines 217-226, on a buffer: what is taken out to be written
Taken(buffer) == IF buffer = <<>> \/ ~influx_up THEN <<>> ELSE buffer

\* write(), lines 158-207, connected and with a field to write: the point is
\* appended, and when the buffer is full or flush_interval has elapsed
\* _flush_buffer is entered, as far as its await
WritePoint(elapsed) ==
    /\ influx_up
    /\ appended < MaxPoints
    /\ appended' = appended + 1
    /\ LET buffer == Append(point_buffer, appended + 1)
       IN  IF Len(buffer) >= BatchSize \/ elapsed
           THEN /\ Len(flushing) < MaxFlushing
                /\ flushing' = Append(flushing, Taken(buffer))
                /\ point_buffer' = <<>>
           ELSE /\ point_buffer' = buffer
                /\ UNCHANGED flushing
    /\ UNCHANGED <<influx_up, written, resolved>>
    /\ UNCHANGED <<nearVars, influxVars, modbusVars, reconnVars>>

\* write(), lines 158-161: not connected, nothing is appended
WriteUnconnected ==
    /\ ~influx_up
    /\ UNCHANGED bufferVars
    /\ UNCHANGED <<nearVars, influxVars, modbusVars, reconnVars>>

\* flush() (line 356) and stop() (line 63): _flush_buffer as far as its await
FlushBuffer ==
    /\ Taken(point_buffer) # <<>>
    /\ Len(flushing) < MaxFlushing
    /\ flushing' = Append(flushing, Taken(point_buffer))
    /\ point_buffer' = <<>>
    /\ UNCHANGED <<influx_up, written, appended, resolved>>
    /\ UNCHANGED <<nearVars, influxVars, modbusVars, reconnVars>>

\* lines 231-241: the write API returns
FlushWritten(i) ==
    /\ written' = written \cup Range(flushing[i])
    /\ resolved' = [points |-> flushing[i], outcome |-> "written"]
    /\ flushing' = Remove(flushing, i)
    /\ UNCHANGED <<point_buffer, influx_up, appended>>
    /\ UNCHANGED <<nearVars, influxVars, modbusVars, reconnVars>>

\* lines 243-250: the write API raises InfluxDBError
FlushInfluxDBError(i) ==
    /\ point_buffer' = PutBack(flushing[i], point_buffer)
    /\ influx_up' = FALSE
    /\ resolved' = [points |-> flushing[i], outcome |-> "InfluxDBError"]
    /\ flushing' = Remove(flushing, i)
    /\ UNCHANGED <<written, appended>>
    /\ UNCHANGED <<nearVars, influxVars, modbusVars, reconnVars>>

\* lines 252-254: the write API raises another Exception
FlushException(i) ==
    /\ resolved' = [points |-> flushing[i], outcome |-> "Exception"]
    /\ flushing' = Remove(flushing, i)
    /\ UNCHANGED <<point_buffer, influx_up, written, appended>>
    /\ UNCHANGED <<nearVars, influxVars, modbusVars, reconnVars>>

\* _reconnect_loop, lines 121-133, with a _connect that goes well
InfluxReconnected ==
    /\ ~influx_up
    /\ influx_up' = TRUE
    /\ UNCHANGED <<point_buffer, flushing, written, appended, resolved>>
    /\ UNCHANGED <<nearVars, influxVars, modbusVars, reconnVars>>

InitInfluxBuffer ==
    /\ DecoderIdle
    /\ InitSystem

NextInfluxBuffer ==
    \/ \E elapsed \in BOOLEAN : WritePoint(elapsed)
    \/ WriteUnconnected
    \/ FlushBuffer
    \/ \E i \in 1..Len(flushing) : FlushWritten(i)
    \/ \E i \in 1..Len(flushing) : FlushInfluxDBError(i)
    \/ \E i \in 1..Len(flushing) : FlushException(i)
    \/ InfluxReconnected

SpecInfluxBuffer == InitInfluxBuffer /\ [][NextInfluxBuffer]_vars

\* the points a _flush_buffer holds at its await
InFlight == UNION {Range(flushing[i]) : i \in 1..Len(flushing)}

\* C36: every point appended to the buffer is in the buffer, or with a flush
\* that has not come back yet, or was handed to the write API by a flush that
\* succeeded; and a flush that fails with InfluxDBError puts the points it
\* took out back ahead of what the buffer holds by then, in their order.
BufferLosesNoPoint ==
    /\ [](\A p \in 1..appended :
             p \in Range(point_buffer) \/ p \in InFlight \/ p \in written)
    /\ [][(resolved' # resolved /\ resolved'.outcome = "InfluxDBError")
             => point_buffer' = resolved'.points \o point_buffer]_vars

\* the part of C36 that the code keeps: a point is lost only by a flush that
\* ended with an Exception other than InfluxDBError
BufferLossOnlyByException ==
    /\ [][(resolved' # resolved /\ resolved'.outcome # "Exception")
             => \A p \in 1..appended' :
                   (p \in Range(point_buffer) \/ p \in InFlight \/ p \in written)
                   => (p \in Range(point_buffer') \/ p \in InFlight' \/ p \in written')]_vars
    /\ [][(resolved' # resolved /\ resolved'.outcome = "InfluxDBError")
             => point_buffer' = resolved'.points \o point_buffer]_vars

=============================================================================
